---- MODULE Spec2Model ----
(***************************************************************************)
(* A model of the shai-hulud lockfile scanner (scanner.go).                *)
(*                                                                         *)
(* Go strings are TLA+ strings, read character by character with SubSeq.   *)
(* A Go map is a TLA+ function; ranging over a map visits its keys in an   *)
(* order the Go runtime chooses, modelled as a nondeterministic choice of  *)
(* a permutation of the keys.  A text file is the sequence of its lines    *)
(* (what strings.Split(content, "\n") or bufio.Scanner yields); a JSON     *)
(* file is the value json.Unmarshal builds from it, or invalid.            *)
(*                                                                         *)
(* The state machine is one run of main, from the validation of the        *)
(* parsed flags (scanner.go line 81) to os.Exit, followed by further runs  *)
(* of the program in the same environment.                                 *)
(***************************************************************************)
EXTENDS Integers, Sequences, FiniteSets, TLC

(***************************************************************************)
(* Package strings                                                         *)
(***************************************************************************)

\* s[i] of Go, for the 1-based index i
Char(s, i) == SubSeq(s, i, i)

HasPrefix(s, prefix) ==
  Len(prefix) <= Len(s) /\ SubSeq(s, 1, Len(prefix)) = prefix

HasSuffix(s, suffix) ==
  Len(suffix) <= Len(s) /\ SubSeq(s, Len(s) - Len(suffix) + 1, Len(s)) = suffix

Contains(s, substr) ==
  \E i \in 1..(Len(s) - Len(substr) + 1) : SubSeq(s, i, i + Len(substr) - 1) = substr

TrimPrefix(s, prefix) ==
  IF HasPrefix(s, prefix) THEN SubSeq(s, Len(prefix) + 1, Len(s)) ELSE s

TrimSuffix(s, suffix) ==
  IF HasSuffix(s, suffix) THEN SubSeq(s, 1, Len(s) - Len(suffix)) ELSE s

\* The Go (0-based) index of the last occurrence of substr in s, -1 if none.
LastIndex(s, substr) ==
  LET at == {i \in 1..(Len(s) - Len(substr) + 1) :
               SubSeq(s, i, i + Len(substr) - 1) = substr}
  IN IF at = {} THEN -1 ELSE (CHOOSE i \in at : \A j \in at : j <= i) - 1

\* strings.Trim(s, cutset): s without its leading and trailing characters that
\* are in cutset
Trim(s, cutset) ==
  LET keep == {i \in 1..Len(s) : ~Contains(cutset, Char(s, i))}
  IN IF keep = {} THEN ""
     ELSE SubSeq(s, CHOOSE i \in keep : \A j \in keep : i <= j,
                    CHOOSE i \in keep : \A j \in keep : j <= i)

\* The white space of unicode.IsSpace that occurs in the files modelled
WhiteSpace == " \t\r"

TrimSpace(s) == Trim(s, WhiteSpace)

\* strings.Split(s, sep) for a one-character separator
RECURSIVE Split(_, _)
Split(s, sep) ==
  LET at == {i \in 1..Len(s) : Char(s, i) = sep}
  IN IF at = {} THEN <<s>>
     ELSE LET i == CHOOSE k \in at : \A j \in at : k <= j
          IN <<SubSeq(s, 1, i - 1)>> \o Split(SubSeq(s, i + 1, Len(s)), sep)

(***************************************************************************)
(* loadExploitedPackages, loadEmbeddedExploitedPackages                    *)
(***************************************************************************)

Digits == "0123456789"

\* [0-9]+
IsNumber(s) == s # "" /\ \A i \in 1..Len(s) : Contains(Digits, Char(s, i))

\* [^@/\s]+
IsNamePart(s) ==
  s # "" /\ \A i \in 1..Len(s) : ~Contains("@/" \o WhiteSpace, Char(s, i))

\* @?[^@/\s]+(?:/[^@/\s]+)?
MatchesName(s) ==
  LET parts == Split(TrimPrefix(s, "@"), "/")
  IN Len(parts) \in {1, 2} /\ \A i \in 1..Len(parts) : IsNamePart(parts[i])

\* [0-9]+\.[0-9]+\.[0-9]+(?:\.[0-9]+)?
MatchesVersion(s) ==
  LET parts == Split(s, ".")
  IN Len(parts) \in {3, 4} /\ \A i \in 1..Len(parts) : IsNumber(parts[i])

\* re.FindStringSubmatch(line) for
\*   ^(@?[^@/\s]+(?:/[^@/\s]+)?)@([0-9]+\.[0-9]+\.[0-9]+(?:\.[0-9]+)?)$
\* The version group holds no '@', so the '@' between the groups is the last
\* one of the line.  <<>> when the line does not match.
FindStringSubmatch(line) ==
  LET at == LastIndex(line, "@")
      name == SubSeq(line, 1, at)
      version == SubSeq(line, at + 2, Len(line))
  IN IF at >= 0 /\ MatchesName(name) /\ MatchesVersion(version)
     THEN <<line, name, version>>
     ELSE <<>>

\* The '@' put before every name with a '/'
NormalizeScopeAgain(name) ==
  IF Contains(name, "/") THEN "@" \o name ELSE name

\* Normalize scoped packages
NormalizeScope(name) ==
  IF Contains(name, "/") /\ ~HasPrefix(name, "@") THEN "@" \o name ELSE name

\* The map a Go nil or empty map[string]map[string]bool is
NoPackages == [n \in {} |-> {}]

\* affected[name][version] = true, the inner map made on first use
AddVersion(affected, name, version) ==
  [n \in DOMAIN affected \cup {name} |->
     IF n = name
     THEN (IF n \in DOMAIN affected THEN affected[n] ELSE {}) \cup {version}
     ELSE affected[n]]

\* The body of the loop without the '@' put before a scoped name
ParseLineNoNormalize(affected, text) ==
  LET line == TrimSpace(text)
      matches == FindStringSubmatch(line)
  IN IF line = "" \/ HasPrefix(line, "#") THEN affected
     ELSE IF Len(matches) = 3
          THEN AddVersion(affected, matches[2], matches[3])
          ELSE affected

\* The body of the loop over scanner.Scan()
ParseLine(affected, text) ==
  LET line == TrimSpace(text)
      matches == FindStringSubmatch(line)
  IN IF line = "" \/ HasPrefix(line, "#") THEN affected
     ELSE IF Len(matches) = 3
          THEN AddVersion(affected, NormalizeScope(matches[2]), matches[3])
          ELSE affected

RECURSIVE ParseLines(_, _)
ParseLines(affected, lines) ==
  IF lines = <<>> THEN affected
  ELSE ParseLines(ParseLine(affected, Head(lines)), Tail(lines))

(***************************************************************************)
(* matchesGlobPattern, shouldIncludePath, findLockfiles                    *)
(***************************************************************************)

\* regexp.MatchString("^" + regex + "$", path) for the regex made of pattern by
\* regexp.QuoteMeta and the two ReplaceAll calls: ** of the pattern is .* ,
\* a remaining * is [^/]* , and every other character stands for itself.
RECURSIVE MatchString(_, _)
MatchString(pattern, path) ==
  IF pattern = "" THEN path = ""
  ELSE IF HasPrefix(pattern, "**")
  THEN \E k \in 0..Len(path) :
         MatchString(SubSeq(pattern, 3, Len(pattern)), SubSeq(path, k + 1, Len(path)))
  ELSE IF HasPrefix(pattern, "*")
  THEN \E k \in 0..Len(path) :
         /\ ~Contains(SubSeq(path, 1, k), "/")
         /\ MatchString(SubSeq(pattern, 2, Len(pattern)), SubSeq(path, k + 1, Len(path)))
  ELSE /\ path # ""
       /\ Char(path, 1) = Char(pattern, 1)
       /\ MatchString(SubSeq(pattern, 2, Len(pattern)), SubSeq(path, 2, Len(path)))

matchesGlobPattern(path, pattern) ==
  IF pattern = "**/node_modules/**"
  THEN Contains(path, "node_modules/")
  ELSE IF HasSuffix(pattern, "/**")
  THEN LET prefix == TrimSuffix(pattern, "/**")
       IN HasPrefix(path, prefix \o "/") \/ path = TrimSuffix(prefix, "/")
  ELSE IF HasPrefix(pattern, "**/")
  THEN LET suffix == TrimPrefix(pattern, "**/")
       IN Contains(path, "/" \o suffix) \/ HasPrefix(path, suffix)
  ELSE MatchString(pattern, path)

\* filepath.Base for a slash-separated path that does not end in a slash
Base(path) == SubSeq(path, LastIndex(path, "/") + 2, Len(path))

\* filepath.Join(rootDir, rel) as filepath.WalkDir builds the paths it reports
JoinRoot(rootDir, rel) ==
  IF rootDir = "." THEN rel ELSE rootDir \o "/" \o rel

\* filepath.Rel(rootDir, fullPath), for a fullPath at or below rootDir; an error
\* when one of the two is absolute and the other is not
Rel(rootDir, fullPath) ==
  IF HasPrefix(rootDir, "/") # HasPrefix(fullPath, "/")
  THEN [err |-> TRUE, path |-> ""]
  ELSE IF rootDir = "." THEN [err |-> FALSE, path |-> fullPath]
  ELSE [err |-> FALSE, path |-> TrimPrefix(TrimPrefix(fullPath, rootDir), "/")]

\* Whether some pattern of the list matches: the loops over exclude and include
RECURSIVE AnyMatch(_, _)
AnyMatch(relPath, patterns) ==
  IF patterns = <<>> THEN FALSE
  ELSE IF matchesGlobPattern(relPath, Head(patterns)) THEN TRUE
  ELSE AnyMatch(relPath, Tail(patterns))

shouldIncludePathIncludeFirst(fullPath, rootDir, include, exclude) ==
  LET rel == Rel(rootDir, fullPath)
  IN IF rel.err THEN FALSE
     ELSE IF Len(include) > 0 /\ AnyMatch(rel.path, include) THEN TRUE
     ELSE IF AnyMatch(rel.path, exclude) THEN FALSE
     ELSE Len(include) = 0

shouldIncludePath(fullPath, rootDir, include, exclude) ==
  LET rel == Rel(rootDir, fullPath)
  IN IF rel.err THEN FALSE
     ELSE IF AnyMatch(rel.path, exclude) THEN FALSE
     ELSE IF Len(include) > 0 THEN AnyMatch(rel.path, include)
     ELSE TRUE

\* Build patterns based on managers
RECURSIVE ManagerPatterns(_)
ManagerPatterns(managers) ==
  IF managers = <<>> THEN <<>>
  ELSE (CASE Head(managers) = "yarn" -> <<"yarn.lock">>
          [] Head(managers) = "npm" -> <<"package-lock.json", "npm-shrinkwrap.json">>
          [] Head(managers) = "pnpm" -> <<"pnpm-lock.yaml">>
          [] Head(managers) = "bun" -> <<"bun.lock", "bun.lockb">>
          [] OTHER -> <<>>)
       \o ManagerPatterns(Tail(managers))

\* The callback without the break: the path is appended for every pattern
\* that equals the name
WalkFnNoBreak(lockfiles, d, patterns, rootDir, include, exclude) ==
  IF d.err THEN lockfiles
  ELSE IF d.isDir THEN lockfiles
  ELSE IF shouldIncludePath(d.path, rootDir, include, exclude)
  THEN lockfiles \o [i \in 1..Cardinality({j \in 1..Len(patterns) :
                                              Base(d.path) = patterns[j]}) |-> d.path]
  ELSE lockfiles

\* The callback filepath.WalkDir is given, for one entry d of the walk
\* ([path, isDir, err]): the lockfiles list after it
WalkFn(lockfiles, d, patterns, rootDir, include, exclude) ==
  IF d.err THEN lockfiles
  ELSE IF d.isDir THEN lockfiles
  ELSE IF /\ \E i \in 1..Len(patterns) : Base(d.path) = patterns[i]
          /\ shouldIncludePath(d.path, rootDir, include, exclude)
  THEN Append(lockfiles, d.path)
  ELSE lockfiles

\* The walk ended by the first error it meets
RECURSIVE WalkAllAbortOnError(_, _, _, _, _, _)
WalkAllAbortOnError(lockfiles, walk, patterns, rootDir, include, exclude) ==
  IF walk = <<>> THEN lockfiles
  ELSE IF Head(walk).err THEN lockfiles
  ELSE WalkAllAbortOnError(WalkFn(lockfiles, Head(walk), patterns, rootDir, include, exclude),
                           Tail(walk), patterns, rootDir, include, exclude)

RECURSIVE WalkAll(_, _, _, _, _, _)
WalkAll(lockfiles, walk, patterns, rootDir, include, exclude) ==
  IF walk = <<>> THEN lockfiles
  ELSE WalkAll(WalkFn(lockfiles, Head(walk), patterns, rootDir, include, exclude),
               Tail(walk), patterns, rootDir, include, exclude)

\* walk: the calls filepath.WalkDir(rootDir, fn) makes, in its lexical order
findLockfiles(walk, rootDir, managers, include, exclude) ==
  WalkAll(<<>>, walk, ManagerPatterns(managers), rootDir, include, exclude)

(***************************************************************************)
(* Files as the parsers read them                                          *)
(*                                                                         *)
(* A JSON value is [t, s, o]: its type t ("obj", "str", "arr", "num"), the *)
(* string s of a "str" and the members o of an "obj".  A file is           *)
(* [readable, lines, valid, data]: whether os.ReadFile succeeds, its lines *)
(* (a text lockfile), and whether json.Unmarshal into a                    *)
(* map[string]interface{} succeeds and the map it builds (a JSON lockfile).*)
(***************************************************************************)

JObj(members) == [t |-> "obj", s |-> "", o |-> members]
JStr(str) == [t |-> "str", s |-> str, o |-> <<>>]
JArr == [t |-> "arr", s |-> "", o |-> <<>>]
JNum == [t |-> "num", s |-> "", o |-> <<>>]

\* x.(map[string]interface{}) succeeds
IsObject(x) == x.t = "obj"

\* m[key].(string) succeeds
HasString(m, key) == key \in DOMAIN m /\ m[key].t = "str"

TextFile(lines) == [readable |-> TRUE, lines |-> lines, valid |-> FALSE, data |-> <<>>]
JSONFile(data) == [readable |-> TRUE, lines |-> <<>>, valid |-> TRUE, data |-> data]
MalformedFile == [readable |-> TRUE, lines |-> <<>>, valid |-> FALSE, data |-> <<>>]
UnreadableFile == [readable |-> FALSE, lines |-> <<>>, valid |-> FALSE, data |-> <<>>]

\* The orders in which a range over a map (or a set of keys) may visit it
Orders(S) ==
  {f \in [1..Cardinality(S) -> S] : \A i, j \in 1..Cardinality(S) : f[i] = f[j] => i = j}

(***************************************************************************)
(* The classification of one (name, version) pair, the same statements in  *)
(* parseYarnLock, parseNPMLock, parsePNMLock and parseBunLock.  A parser's *)
(* result so far is [packages, hasAffected, hasWarnings]; the operators    *)
(* give the set of results the code may produce.                           *)
(***************************************************************************)

NoResult == [packages |-> <<>>, hasAffected |-> FALSE, hasWarnings |-> FALSE]

ClassifyMatchedVersionOnly(acc, name, version, affected) ==
  IF name \in DOMAIN affected
  THEN LET isAffected == version \in affected[name]
           isWarning == ~isAffected /\ Cardinality(affected[name]) > 0
       IN {[packages |-> Append(acc.packages,
              [Name |-> name, Version |-> version, IsAffected |-> isAffected,
               IsWarning |-> isWarning,
               AffectedVersions |-> IF isAffected THEN <<version>> ELSE <<>>]),
            hasAffected |-> acc.hasAffected \/ isAffected,
            hasWarnings |-> acc.hasWarnings \/ isWarning]}
  ELSE {acc}

ClassifyWarnsAlways(acc, name, version, affected) ==
  IF name \in DOMAIN affected
  THEN LET isAffected == version \in affected[name]
           isWarning == Cardinality(affected[name]) > 0
       IN {[packages |-> Append(acc.packages,
              [Name |-> name, Version |-> version, IsAffected |-> isAffected,
               IsWarning |-> isWarning, AffectedVersions |-> affectedVers]),
            hasAffected |-> acc.hasAffected \/ isAffected,
            hasWarnings |-> acc.hasWarnings \/ isWarning]
           : affectedVers \in Orders(affected[name])}
  ELSE {acc}

\* strings.ToLower on the letters of the names modelled
ToLower(s) ==
  LET upper == "ABCDEFGHIJKLMNOPQRSTUVWXYZ"
      lower == "abcdefghijklmnopqrstuvwxyz"
      low(c) == IF Contains(upper, c)
                THEN Char(lower, LastIndex(upper, c) + 1) ELSE c
      F[i \in 0..Len(s)] == IF i = 0 THEN "" ELSE F[i - 1] \o low(Char(s, i))
  IN F[Len(s)]

ClassifyIgnoringCase(acc, name, version, affected) ==
  LET keys == {k \in DOMAIN affected : ToLower(k) = ToLower(name)}
  IN IF keys # {}
     THEN LET key == CHOOSE k \in keys : TRUE
              isAffected == version \in affected[key]
              isWarning == ~isAffected /\ Cardinality(affected[key]) > 0
          IN {[packages |-> Append(acc.packages,
                 [Name |-> name, Version |-> version, IsAffected |-> isAffected,
                  IsWarning |-> isWarning, AffectedVersions |-> affectedVers]),
               hasAffected |-> acc.hasAffected \/ isAffected,
               hasWarnings |-> acc.hasWarnings \/ isWarning]
              : affectedVers \in Orders(affected[key])}
     ELSE {acc}

Classify(acc, name, version, affected) ==
  IF name \in DOMAIN affected
  THEN LET isAffected == version \in affected[name]
           isWarning == ~isAffected /\ Cardinality(affected[name]) > 0
       IN IF isAffected \/ isWarning
          THEN {[packages |-> Append(acc.packages,
                   [Name |-> name, Version |-> version, IsAffected |-> isAffected,
                    IsWarning |-> isWarning, AffectedVersions |-> affectedVers]),
                 hasAffected |-> acc.hasAffected \/ isAffected,
                 hasWarnings |-> acc.hasWarnings \/ isWarning]
                : affectedVers \in Orders(affected[name])}
          ELSE {acc}
  ELSE {acc}

(***************************************************************************)
(* parseNPMLock                                                            *)
(***************************************************************************)

extractPackageNameFromPath(path) ==
  LET cleanPath == TrimPrefix(TrimPrefix(path, "/"), "node_modules/")
  IN IF cleanPath = "" THEN "" ELSE NormalizeScope(cleanPath)

\* The body of the loop with the root entry classified by its name member
NPMEntryRootByName(acc, key, pkgData, affected) ==
  IF ~IsObject(pkgData) THEN {acc}
  ELSE IF key = ""
  THEN IF HasString(pkgData.o, "name") /\ HasString(pkgData.o, "version")
       THEN Classify(acc, pkgData.o["name"].s, pkgData.o["version"].s, affected)
       ELSE {acc}
  ELSE LET name == extractPackageNameFromPath(key)
       IN IF name = "" THEN {acc}
          ELSE IF HasString(pkgData.o, "version")
          THEN Classify(acc, name, pkgData.o["version"].s, affected)
          ELSE {acc}

\* The body of the loop over packagesData
NPMEntry(acc, key, pkgData, affected) ==
  IF ~IsObject(pkgData) THEN {acc}
  ELSE IF key = "" THEN {acc}
  ELSE LET name == extractPackageNameFromPath(key)
       IN IF name = "" THEN {acc}
          ELSE IF HasString(pkgData.o, "version")
          THEN Classify(acc, name, pkgData.o["version"].s, affected)
          ELSE {acc}

RECURSIVE NPMRange(_, _, _, _)
NPMRange(accs, keys, packagesData, affected) ==
  IF keys = <<>> THEN accs
  ELSE NPMRange(UNION {NPMEntry(acc, Head(keys), packagesData[Head(keys)], affected)
                       : acc \in accs},
                Tail(keys), packagesData, affected)

\* parseNPMLock with a file it cannot read or parse reported as a warning
parseNPMLockWarnsOnFailure(file, affected) ==
  IF ~file.readable \/ ~file.valid
  THEN {[packages |-> <<>>, hasAffected |-> FALSE, hasWarnings |-> TRUE]}
  ELSE IF "packages" \in DOMAIN file.data /\ IsObject(file.data["packages"])
  THEN LET packagesData == file.data["packages"].o
       IN UNION {NPMRange({NoResult}, keys, packagesData, affected)
                 : keys \in Orders(DOMAIN packagesData)}
  ELSE {NoResult}

parseNPMLock(file, affected) ==
  IF ~file.readable THEN {NoResult}
  ELSE IF ~file.valid THEN {NoResult}
  ELSE IF "packages" \in DOMAIN file.data /\ IsObject(file.data["packages"])
  THEN LET packagesData == file.data["packages"].o
       IN UNION {NPMRange({NoResult}, keys, packagesData, affected)
                 : keys \in Orders(DOMAIN packagesData)}
  ELSE {NoResult}

(***************************************************************************)
(* parseYarnLock                                                           *)
(***************************************************************************)

extractPackageNameFromYarnHeader(header) ==
  LET parts == Split(header, ",")
      firstPart == TrimSpace(parts[1])
      atIndex == LastIndex(firstPart, "@")
  IN IF atIndex = -1 THEN "" ELSE NormalizeScope(SubSeq(firstPart, 1, atIndex))

\* Find version in the following lines: the loop over j, from the 1-based line j
RECURSIVE YarnVersion(_, _)
YarnVersion(lines, j) ==
  IF j > Len(lines) THEN ""
  ELSE IF HasPrefix(TrimSpace(lines[j]), "\"") THEN ""
  ELSE LET verLine == TrimSpace(lines[j])
       IN IF HasPrefix(verLine, "version")
          THEN Trim(TrimPrefix(verLine, "version"), " \"")
          ELSE YarnVersion(lines, j + 1)

\* foundPackages[name] = version
SetFound(foundPackages, name, version) ==
  [n \in DOMAIN foundPackages \cup {name} |->
     IF n = name THEN version ELSE foundPackages[n]]

\* The loop over the lines, from the 1-based line i
RECURSIVE YarnHeaders(_, _, _)
YarnHeaders(foundPackages, lines, i) ==
  IF i > Len(lines) THEN foundPackages
  ELSE LET line == TrimSpace(lines[i])
           name == extractPackageNameFromYarnHeader(Trim(line, "\":"))
           version == YarnVersion(lines, i + 1)
       IN IF Contains(line, "@") /\ Contains(line, ":") /\ name # "" /\ version # ""
          THEN YarnHeaders(SetFound(foundPackages, name, version), lines, i + 1)
          ELSE YarnHeaders(foundPackages, lines, i + 1)

\* Check against affected packages: the range over foundPackages
RECURSIVE YarnRange(_, _, _, _)
YarnRange(accs, names, foundPackages, affected) ==
  IF names = <<>> THEN accs
  ELSE YarnRange(UNION {Classify(acc, Head(names), foundPackages[Head(names)], affected)
                        : acc \in accs},
                 Tail(names), foundPackages, affected)

parseYarnLock(file, affected) ==
  IF ~file.readable THEN {NoResult}
  ELSE LET foundPackages == YarnHeaders(<<>>, file.lines, 1)
       IN UNION {YarnRange({NoResult}, names, foundPackages, affected)
                 : names \in Orders(DOMAIN foundPackages)}

(***************************************************************************)
(* parsePNMLock                                                            *)
(***************************************************************************)

\* The body of the loop over the lines
PNPMLine(acc, text, affected) ==
  LET line == TrimSpace(text)
      entry == TrimSuffix(TrimPrefix(line, "/"), ":")
      atIndex == LastIndex(entry, "@")
  IN IF HasPrefix(line, "/") /\ Contains(line, "@") /\ HasSuffix(line, ":")
     THEN IF atIndex = -1 THEN {acc}
          ELSE Classify(acc, NormalizeScope(SubSeq(entry, 1, atIndex)),
                        SubSeq(entry, atIndex + 2, Len(entry)), affected)
     ELSE {acc}

RECURSIVE PNPMLines(_, _, _)
PNPMLines(accs, lines, affected) ==
  IF lines = <<>> THEN accs
  ELSE PNPMLines(UNION {PNPMLine(acc, Head(lines), affected) : acc \in accs},
                 Tail(lines), affected)

parsePNMLock(file, affected) ==
  IF ~file.readable THEN {NoResult}
  ELSE PNPMLines({NoResult}, file.lines, affected)

(***************************************************************************)
(* parseBunLock                                                            *)
(***************************************************************************)

\* The body of the loop over packagesData
BunEntry(acc, key, pkgData, affected) ==
  IF ~IsObject(pkgData) THEN {acc}
  ELSE IF key = "" THEN {acc}
  ELSE LET atIndex == LastIndex(key, "@")
       IN IF atIndex = -1 THEN {acc}
          ELSE IF HasString(pkgData.o, "version")
          THEN Classify(acc, NormalizeScope(SubSeq(key, 1, atIndex)),
                        pkgData.o["version"].s, affected)
          ELSE {acc}

RECURSIVE BunRange(_, _, _, _)
BunRange(accs, keys, packagesData, affected) ==
  IF keys = <<>> THEN accs
  ELSE BunRange(UNION {BunEntry(acc, Head(keys), packagesData[Head(keys)], affected)
                       : acc \in accs},
                Tail(keys), packagesData, affected)

parseBunLock(file, affected) ==
  IF ~file.readable THEN {NoResult}
  ELSE IF ~file.valid THEN {NoResult}
  ELSE IF "packages" \in DOMAIN file.data /\ IsObject(file.data["packages"])
  THEN LET packagesData == file.data["packages"].o
       IN UNION {BunRange({NoResult}, keys, packagesData, affected)
                 : keys \in Orders(DOMAIN packagesData)}
  ELSE {NoResult}

(***************************************************************************)
(* scanLockfile, scanLockfiles                                             *)
(*                                                                         *)
(* disk maps the path of each file to the file.                            *)
(***************************************************************************)

\* The choice of the parser with a bun.lockb read as a bun.lock
scanLockfileReadsLockb(lockfile, affected, disk) ==
  LET baseName == Base(lockfile)
  IN IF baseName = "yarn.lock" THEN parseYarnLock(disk[lockfile], affected)
     ELSE IF baseName = "package-lock.json" \/ baseName = "npm-shrinkwrap.json"
     THEN parseNPMLock(disk[lockfile], affected)
     ELSE IF baseName = "pnpm-lock.yaml" THEN parsePNMLock(disk[lockfile], affected)
     ELSE IF baseName = "bun.lock" \/ baseName = "bun.lockb"
     THEN parseBunLock(disk[lockfile], affected)
     ELSE {NoResult}

\* The results the scan of one lockfile may give
scanLockfile(lockfile, affected, disk) ==
  LET baseName == Base(lockfile)
  IN IF baseName = "yarn.lock" THEN parseYarnLock(disk[lockfile], affected)
     ELSE IF baseName = "package-lock.json" \/ baseName = "npm-shrinkwrap.json"
     THEN parseNPMLock(disk[lockfile], affected)
     ELSE IF baseName = "pnpm-lock.yaml" THEN parsePNMLock(disk[lockfile], affected)
     ELSE IF baseName = "bun.lock" \/ baseName = "bun.lockb"
     THEN IF baseName = "bun.lockb" THEN {NoResult}
          ELSE parseBunLock(disk[lockfile], affected)
     ELSE {NoResult}

NoScan == [results |-> <<>>, anyAffected |-> FALSE, anyWarnings |-> FALSE]

\* The body of the loop with the flags of the last lockfile kept
ScanOneLastFlags(scan, lockfile, r) ==
  [results |-> IF Len(r.packages) > 0
               THEN Append(scan.results, [LockFile |-> lockfile, Packages |-> r.packages])
               ELSE scan.results,
   anyAffected |-> r.hasAffected,
   anyWarnings |-> r.hasWarnings]

\* The body of the loop without the warnings of the lockfile in anyWarnings
ScanOneDropsWarnings(scan, lockfile, r) ==
  [results |-> IF Len(r.packages) > 0
               THEN Append(scan.results, [LockFile |-> lockfile, Packages |-> r.packages])
               ELSE scan.results,
   anyAffected |-> scan.anyAffected \/ r.hasAffected,
   anyWarnings |-> scan.anyWarnings]

\* The body of the loop with a Result for every lockfile
ScanOneKeepsEmpty(scan, lockfile, r) ==
  [results |-> Append(scan.results, [LockFile |-> lockfile, Packages |-> r.packages]),
   anyAffected |-> scan.anyAffected \/ r.hasAffected,
   anyWarnings |-> scan.anyWarnings \/ r.hasWarnings]

\* The body of the loop over lockfiles, for one result r of scanLockfile
ScanOne(scan, lockfile, r) ==
  [results |-> IF Len(r.packages) > 0
               THEN Append(scan.results, [LockFile |-> lockfile, Packages |-> r.packages])
               ELSE scan.results,
   anyAffected |-> scan.anyAffected \/ r.hasAffected,
   anyWarnings |-> scan.anyWarnings \/ r.hasWarnings]

RECURSIVE ScanAll(_, _, _, _)
ScanAll(scans, lockfiles, affected, disk) ==
  IF lockfiles = <<>> THEN scans
  ELSE ScanAll({ScanOne(scan, Head(lockfiles), r)
                : scan \in scans, r \in scanLockfile(Head(lockfiles), affected, disk)},
               Tail(lockfiles), affected, disk)

\* The results the scan of all lockfiles may give
scanLockfiles(lockfiles, affected, disk) ==
  ScanAll({NoScan}, lockfiles, affected, disk)

(***************************************************************************)
(* main                                                                    *)
(*                                                                         *)
(* env is what a run reads and never changes: the flags, the embedded      *)
(* list, and the file system.                                              *)
(*   listPath, rootDir, managersStr, includeStr, excludeStr, jsonPath      *)
(*              the flags of the same names                                *)
(*   listFile   the file at listPath: [exists, openable, lines, readErr],  *)
(*              readErr when the scanner stops with an error after lines   *)
(*   embedded   embeddedExploitedPackages: [lines, readErr]                *)
(*   rootExists whether os.Stat(rootDir) finds it                          *)
(*   files      the paths, relative to rootDir, of the files below it      *)
(*   unreadable the directories below rootDir that cannot be read          *)
(*   disk       the file at each full path                                 *)
(*   jsonWritable whether os.WriteFile(jsonPath) succeeds                  *)
(***************************************************************************)
VARIABLES
  env,          \* the environment of the runs
  pc,           \* where main is: "validate", "load", "find", "scan", "report", "exit"
  managers,     \* main's managers
  include,      \* main's include
  exclude,      \* main's exclude
  affected,     \* main's affected
  lockfiles,    \* main's lockfiles
  results,      \* main's results
  anyAffected,  \* main's anyAffected
  anyWarnings,  \* main's anyWarnings
  scanResult,   \* main's scanResult, <<>> until it is built
  exitCode,     \* the status given to os.Exit, -1 while main runs
  calls,        \* how often this run has called each of the functions it counts
  previous      \* <<>>, or the results and exit status of the run before this one

vars == <<env, pc, managers, include, exclude, affected, lockfiles, results,
          anyAffected, anyWarnings, scanResult, exitCode, calls, previous>>

RECURSIVE TrimmedNonEmpty(_)
TrimmedNonEmpty(parts) ==
  IF parts = <<>> THEN <<>>
  ELSE (IF TrimSpace(Head(parts)) # "" THEN <<TrimSpace(Head(parts))>> ELSE <<>>)
       \o TrimmedNonEmpty(Tail(parts))

parseCommaSeparated(s) ==
  IF s = "" THEN <<>> ELSE TrimmedNonEmpty(Split(s, ","))

validManagers == <<"yarn", "npm", "pnpm", "bun">>

\* Validate managers
AllValid(ms) ==
  \A i \in 1..Len(ms) : \E j \in 1..Len(validManagers) : ms[i] = validManagers[j]

\* os.Open(path) fails
OpenFails(path, file) == path = "" \/ ~file.exists \/ ~file.openable

\* [affected, err]: what loadExploitedPackages(path) returns, file the file at path
loadExploitedPackages(path, file) ==
  IF OpenFails(path, file) THEN [affected |-> NoPackages, err |-> TRUE]
  ELSE [affected |-> ParseLines(NoPackages, file.lines), err |-> file.readErr]

\* [affected, err]: what loadEmbeddedExploitedPackages() returns
loadEmbeddedExploitedPackages(embedded) ==
  [affected |-> ParseLines(NoPackages, embedded.lines), err |-> embedded.readErr]

\* embeddedExploitedPackages == ""
EmbeddedIsEmpty(embedded) == embedded.lines = <<>> /\ ~embedded.readErr

NoCalls ==
  [loadExploitedPackages |-> 0, loadEmbeddedExploitedPackages |-> 0,
   findLockfiles |-> 0, scanLockfiles |-> 0]

Called(counts, fn) == [counts EXCEPT ![fn] = @ + 1]

Exit(code) == pc' = "exit" /\ exitCode' = code

\* Lines 81-130: validate the parameters, parse managers, include and exclude
ValidateSkipRootCheck ==
  /\ pc = "validate"
  /\ managers' = parseCommaSeparated(env.managersStr)
  /\ include' = IF env.includeStr # "" THEN parseCommaSeparated(env.includeStr) ELSE <<>>
  /\ exclude' = IF env.excludeStr # "" THEN parseCommaSeparated(env.excludeStr) ELSE <<>>
  /\ IF env.listPath = "" /\ EmbeddedIsEmpty(env.embedded) THEN Exit(1)
     ELSE IF env.listPath # "" /\ ~env.listFile.exists THEN Exit(1)
     ELSE IF Len(managers') = 0 THEN Exit(1)
     ELSE IF ~AllValid(managers') THEN Exit(1)
     ELSE pc' = "load" /\ exitCode' = exitCode
  /\ UNCHANGED <<env, affected, lockfiles, results, anyAffected, anyWarnings,
                 scanResult, calls, previous>>

Validate ==
  /\ pc = "validate"
  /\ managers' = parseCommaSeparated(env.managersStr)
  /\ include' = IF env.includeStr # "" THEN parseCommaSeparated(env.includeStr) ELSE <<>>
  /\ exclude' = IF env.excludeStr # "" THEN parseCommaSeparated(env.excludeStr) ELSE <<>>
  /\ IF env.listPath = "" /\ EmbeddedIsEmpty(env.embedded) THEN Exit(1)
     ELSE IF env.listPath # "" /\ ~env.listFile.exists THEN Exit(1)
     ELSE IF ~env.rootExists THEN Exit(1)
     ELSE IF Len(managers') = 0 THEN Exit(1)
     ELSE IF ~AllValid(managers') THEN Exit(1)
     ELSE pc' = "load" /\ exitCode' = exitCode
  /\ UNCHANGED <<env, affected, lockfiles, results, anyAffected, anyWarnings,
                 scanResult, calls, previous>>

\* Lines 132-154 without the fallback to the embedded list
LoadWithoutFallback ==
  /\ pc = "load"
  /\ LET loaded == loadExploitedPackages(env.listPath, env.listFile)
     IN /\ calls' = Called(calls, "loadExploitedPackages")
        /\ affected' = loaded.affected
        /\ IF loaded.err \/ DOMAIN loaded.affected = {} THEN Exit(1)
           ELSE pc' = "find" /\ exitCode' = exitCode
  /\ UNCHANGED <<env, managers, include, exclude, lockfiles, results, anyAffected,
                 anyWarnings, scanResult, previous>>

\* Lines 132-154: load the exploited packages, the embedded list as fallback
Load ==
  /\ pc = "load"
  /\ LET loaded == loadExploitedPackages(env.listPath, env.listFile)
         fallback == loadEmbeddedExploitedPackages(env.embedded)
         once == Called(calls, "loadExploitedPackages")
     IN IF loaded.err
        THEN /\ calls' = Called(once, "loadEmbeddedExploitedPackages")
             /\ affected' = fallback.affected
             /\ IF fallback.err THEN Exit(1)
                ELSE IF DOMAIN fallback.affected = {} THEN Exit(1)
                ELSE pc' = "find" /\ exitCode' = exitCode
        ELSE /\ calls' = once
             /\ affected' = loaded.affected
             /\ IF DOMAIN loaded.affected = {} THEN Exit(1)
                ELSE pc' = "find" /\ exitCode' = exitCode
  /\ UNCHANGED <<env, managers, include, exclude, lockfiles, results, anyAffected,
                 anyWarnings, scanResult, previous>>

\* The entries below rootDir that the environments are made of, directories
\* and files, in the lexical order in which filepath.WalkDir reads them
TreeEntries == <<
  [path |-> ".pnpm-store",                      isDir |-> TRUE],
  [path |-> ".pnpm-store/yarn.lock",            isDir |-> FALSE],
  [path |-> ".turbo",                           isDir |-> TRUE],
  [path |-> ".turbo/yarn.lock",                 isDir |-> FALSE],
  [path |-> "apps",                             isDir |-> TRUE],
  [path |-> "apps/web",                         isDir |-> TRUE],
  [path |-> "apps/web/build",                   isDir |-> TRUE],
  [path |-> "apps/web/build/package-lock.json", isDir |-> FALSE],
  [path |-> "apps/web/package-lock.json",       isDir |-> FALSE],
  [path |-> "apps/yarn.lock",                   isDir |-> TRUE],
  [path |-> "apps/yarn.lock/README.md",         isDir |-> FALSE],
  [path |-> "build",                            isDir |-> TRUE],
  [path |-> "build/yarn.lock",                  isDir |-> FALSE],
  [path |-> "bun.lock",                         isDir |-> FALSE],
  [path |-> "bun.lockb",                        isDir |-> FALSE],
  [path |-> "dist",                             isDir |-> TRUE],
  [path |-> "dist/yarn.lock",                   isDir |-> FALSE],
  [path |-> "my_node_modules",                  isDir |-> TRUE],
  [path |-> "my_node_modules/yarn.lock",        isDir |-> FALSE],
  [path |-> "node_modules",                     isDir |-> TRUE],
  [path |-> "node_modules/a",                   isDir |-> TRUE],
  [path |-> "node_modules/a/package-lock.json", isDir |-> FALSE],
  [path |-> "npm-shrinkwrap.json",              isDir |-> FALSE],
  [path |-> "package-lock.json",                isDir |-> FALSE],
  [path |-> "pnpm-lock.yaml",                   isDir |-> FALSE],
  [path |-> "private",                          isDir |-> TRUE],
  [path |-> "private/yarn.lock",                isDir |-> FALSE],
  [path |-> "tmp",                              isDir |-> TRUE],
  [path |-> "tmp/yarn.lock",                    isDir |-> FALSE],
  [path |-> "yarn.lock",                        isDir |-> FALSE],
  [path |-> "yarn.lock.d",                      isDir |-> TRUE],
  [path |-> "yarn.lock.d/package-lock.json",    isDir |-> FALSE] >>

\* p lies below the directory dir
Below(p, dir) == HasPrefix(p, dir \o "/")

\* filepath.WalkDir(rootDir, fn): the entries [path, isDir, err] it calls fn
\* with, in order.  It reports the root first (with the error of os.Lstat when
\* the root is missing), every directory before what is in it, a directory
\* that cannot be read a second time with the error, and nothing below such a
\* directory.
WalkDir(rootDir, rootExists, files, unreadable) ==
  LET hidden(p) == \E dir \in unreadable : Below(p, dir)
      present(e) == /\ ~hidden(e.path)
                    /\ IF e.isDir THEN \E f \in files : Below(f, e.path)
                       ELSE e.path \in files
      visit(e) ==
        IF ~present(e) THEN <<>>
        ELSE <<[path |-> JoinRoot(rootDir, e.path), isDir |-> e.isDir, err |-> FALSE]>>
             \o (IF e.isDir /\ e.path \in unreadable
                 THEN <<[path |-> JoinRoot(rootDir, e.path), isDir |-> TRUE, err |-> TRUE]>>
                 ELSE <<>>)
      F[i \in 0..Len(TreeEntries)] ==
        IF i = 0 THEN <<[path |-> rootDir, isDir |-> TRUE, err |-> FALSE]>>
        ELSE F[i - 1] \o visit(TreeEntries[i])
  IN IF ~rootExists THEN <<[path |-> rootDir, isDir |-> FALSE, err |-> TRUE]>>
     ELSE F[Len(TreeEntries)]

\* Lines 156-168: find the lockfiles.  The callback given to WalkDir returns
\* nil in every case, so findLockfiles returns no error.
Find ==
  /\ pc = "find"
  /\ calls' = Called(calls, "findLockfiles")
  /\ lockfiles' = findLockfiles(
                    WalkDir(env.rootDir, env.rootExists, env.files, env.unreadable),
                    env.rootDir, managers, include, exclude)
  /\ IF Len(lockfiles') = 0 THEN Exit(0) ELSE pc' = "scan" /\ exitCode' = exitCode
  /\ UNCHANGED <<env, managers, include, exclude, affected, results, anyAffected,
                 anyWarnings, scanResult, previous>>

\* Line 171: scan the lockfiles
Scan ==
  /\ pc = "scan"
  /\ calls' = Called(calls, "scanLockfiles")
  /\ \E scan \in scanLockfiles(lockfiles, affected, env.disk) :
       /\ results' = scan.results
       /\ anyAffected' = scan.anyAffected
       /\ anyWarnings' = scan.anyWarnings
  /\ pc' = "report"
  /\ UNCHANGED <<env, managers, include, exclude, affected, lockfiles, scanResult,
                 exitCode, previous>>

\* Build summary: the loops over results and result.Packages
RECURSIVE CountPackages(_, _)
CountPackages(packages, counted) ==
  IF packages = <<>> THEN 0
  ELSE (IF Head(packages)[counted] THEN 1 ELSE 0) + CountPackages(Tail(packages), counted)

\* The sums with every package counted, whatever its flags
RECURSIVE TotalOfAll(_, _)
TotalOfAll(rs, counted) ==
  IF rs = <<>> THEN 0
  ELSE Len(Head(rs).Packages) + TotalOfAll(Tail(rs), counted)

RECURSIVE Total(_, _)
Total(rs, counted) ==
  IF rs = <<>> THEN 0
  ELSE (IF counted = "" THEN Len(Head(rs).Packages)
        ELSE CountPackages(Head(rs).Packages, counted))
       + Total(Tail(rs), counted)

\* filepath.Abs
Abs(path, cwd) ==
  IF HasPrefix(path, "/") THEN path
  ELSE IF path = "." THEN cwd ELSE cwd \o "/" \o path

\* Lines 173-232 with the exit status 2 given for warnings too
ReportWarningsExitTwo ==
  /\ pc = "report"
  /\ scanResult' = <<[Root |-> Abs(env.rootDir, env.cwd),
                      Results |-> results,
                      AnyAffected |-> anyAffected,
                      AnyWarnings |-> anyWarnings,
                      Summary |-> [TotalLockfiles |-> Len(lockfiles),
                                   TotalPackages |-> Total(results, ""),
                                   TotalWarnings |-> Total(results, "IsWarning"),
                                   TotalCompromised |-> Total(results, "IsAffected")]]>>
  /\ IF env.jsonPath # "" /\ ~env.jsonWritable THEN Exit(1)
     ELSE IF anyAffected \/ anyWarnings THEN Exit(2)
     ELSE Exit(0)
  /\ UNCHANGED <<env, managers, include, exclude, affected, lockfiles, results,
                 anyAffected, anyWarnings, calls, previous>>

\* Lines 173-232: build the summary and the output, write the JSON file, exit.
\* json.MarshalIndent does not fail on a ScanResult.
Report ==
  /\ pc = "report"
  /\ scanResult' = <<[Root |-> Abs(env.rootDir, env.cwd),
                      Results |-> results,
                      AnyAffected |-> anyAffected,
                      AnyWarnings |-> anyWarnings,
                      Summary |-> [TotalLockfiles |-> Len(lockfiles),
                                   TotalPackages |-> Total(results, ""),
                                   TotalWarnings |-> Total(results, "IsWarning"),
                                   TotalCompromised |-> Total(results, "IsAffected")]]>>
  /\ IF env.jsonPath # "" /\ ~env.jsonWritable THEN Exit(1)
     ELSE IF anyAffected THEN Exit(2)
     ELSE Exit(0)
  /\ UNCHANGED <<env, managers, include, exclude, affected, lockfiles, results,
                 anyAffected, anyWarnings, calls, previous>>

\* The program is run again in the same environment; previous keeps what the
\* run that ended gave.
Rerun ==
  /\ pc = "exit"
  /\ previous' = <<[results |-> results, exitCode |-> exitCode,
                    scanned |-> calls.scanLockfiles > 0]>>
  /\ pc' = "validate"
  /\ managers' = <<>>
  /\ include' = <<>>
  /\ exclude' = <<>>
  /\ affected' = NoPackages
  /\ lockfiles' = <<>>
  /\ results' = <<>>
  /\ anyAffected' = FALSE
  /\ anyWarnings' = FALSE
  /\ scanResult' = <<>>
  /\ exitCode' = -1
  /\ calls' = NoCalls
  /\ UNCHANGED env

(***************************************************************************)
(* The environments the runs are checked in                                *)
(*                                                                         *)
(* Each family varies one part of a base environment to its bound: the     *)
(* lines of the list file, the flags and the state of the files they name, *)
(* the tree below rootDir with the filters, the content of a lockfile.     *)
(***************************************************************************)

MaxListLines == 2   \* lines of the list file
MaxFiles == 2       \* files below rootDir
MaxEntries == 2     \* members of the packages object of a lockfile

\* The sequences over S of length n or less
SeqsUpTo(S, n) == UNION {[1..k -> S] : k \in 0..n}

\* The subsets of S of n elements or fewer
RECURSIVE SubsetsUpTo(_, _)
SubsetsUpTo(S, n) ==
  IF n = 0 THEN {{}}
  ELSE LET smaller == SubsetsUpTo(S, n - 1)
       IN smaller \cup {T \cup {x} : T \in smaller, x \in S}

\* The function with the graph pairs, a set of <<key, value>> with distinct keys
MapOf(pairs) ==
  [k \in {e[1] : e \in pairs} |-> (CHOOSE e \in pairs : e[1] = k)[2]]

DistinctKeys(pairs) == \A e1, e2 \in pairs : e1[1] = e2[1] => e1 = e2

ListLineChoices ==
  {"left-pad@1.3.0", "left-pad@1.2.0", "babel/core@7.15.0", "", "invalid-line",
   "#left-pad@9.9.9", "   spaced-package@1.0.0"}

DefaultExclude ==
  "**/node_modules/**,**/.pnpm-store/**,**/dist/**,**/build/**,**/tmp/**,**/.turbo/**"

Version(v) == JObj("version" :> JStr(v))

\* What a file holds unless an environment says otherwise, by its base name
DefaultFile(path) ==
  CASE Base(path) = "yarn.lock" ->
         TextFile(<<"# yarn lockfile v1", "", "left-pad@^1.3.0:", "  version \"1.3.0\"", "">>)
    [] Base(path) \in {"package-lock.json", "npm-shrinkwrap.json"} ->
         JSONFile(("name" :> JStr("app")) @@
                  ("packages" :> JObj(("" :> JObj(("name" :> JStr("app")) @@
                                                  ("version" :> JStr("1.0.0")))) @@
                                      ("node_modules/left-pad" :> Version("1.3.0")))))
    [] Base(path) = "pnpm-lock.yaml" ->
         TextFile(<<"lockfileVersion: 5.4", "", "packages:", "", "  /left-pad@1.2.0:",
                    "    dev: false">>)
    [] Base(path) = "bun.lock" ->
         JSONFile("packages" :> JObj(("left-pad@1.3.0" :> Version("1.3.0")) @@
                                     ("lodash@4.17.21" :> JArr)))
    [] Base(path) = "bun.lockb" -> MalformedFile
    [] OTHER -> TextFile(<<"# notes">>)

\* The disk that holds the files (paths relative to rootDir), each with its
\* default content but for the files of special
DiskOf(rootDir, files, special) ==
  [p \in {JoinRoot(rootDir, f) : f \in files} |->
     IF p \in DOMAIN special THEN special[p] ELSE DefaultFile(p)]

ListFile(lines) ==
  [exists |-> TRUE, openable |-> TRUE, lines |-> lines, readErr |-> FALSE]

BaseEnv ==
  [listPath |-> "exploited_packages.txt",
   listFile |-> ListFile(<<"left-pad@1.3.0", "babel/core@7.15.0">>),
   embedded |-> [lines |-> <<"# Shai-Hulud", "left-pad@1.3.0">>, readErr |-> FALSE],
   rootDir |-> "/app",
   rootExists |-> TRUE,
   cwd |-> "/work",
   managersStr |-> "yarn,npm,pnpm,bun",
   includeStr |-> "",
   excludeStr |-> DefaultExclude,
   files |-> {"package-lock.json", "pnpm-lock.yaml"},
   unreadable |-> {},
   disk |-> DiskOf("/app", {"package-lock.json", "pnpm-lock.yaml"}, <<>>),
   jsonPath |-> "",
   jsonWritable |-> TRUE]

\* The list file holds any lines
ListEnvs ==
  {[BaseEnv EXCEPT !.listFile = ListFile(lines)]
   : lines \in SeqsUpTo(ListLineChoices, MaxListLines)}

\* The list file at listPath, when the flag is given
ListFileChoices ==
  {[exists |-> FALSE, openable |-> FALSE, lines |-> <<>>, readErr |-> FALSE],
   [exists |-> TRUE, openable |-> FALSE, lines |-> <<>>, readErr |-> FALSE],
   [exists |-> TRUE, openable |-> TRUE, lines |-> <<"left-pad@1.2.0">>, readErr |-> TRUE],
   ListFile(<<"left-pad@1.3.0">>),
   ListFile(<<"# nothing yet">>)}

EmbeddedChoices ==
  {[lines |-> <<>>, readErr |-> FALSE],
   [lines |-> <<"# Shai-Hulud", "left-pad@1.3.0">>, readErr |-> FALSE],
   [lines |-> <<"# Shai-Hulud">>, readErr |-> FALSE],
   [lines |-> <<"left-pad@1.3.0">>, readErr |-> TRUE]}

\* The flags, and the state of the files and directories they name
FlagEnvs ==
  {[BaseEnv EXCEPT !.listPath = IF given THEN "exploited_packages.txt" ELSE "",
                   !.listFile = listFile,
                   !.embedded = embedded,
                   !.rootExists = rootExists,
                   !.managersStr = managersStr,
                   !.jsonPath = IF json = "none" THEN "" ELSE "results.json",
                   !.jsonWritable = (json # "fails")]
   : given \in BOOLEAN, listFile \in ListFileChoices, embedded \in EmbeddedChoices,
     rootExists \in BOOLEAN,
     managersStr \in {"yarn,npm,pnpm,bun", "", " , ", "npm, pip", " npm ,yarn"},
     json \in {"none", "written", "fails"}}

TreeFiles == {TreeEntries[i].path : i \in {j \in 1..Len(TreeEntries) : ~TreeEntries[j].isDir}}

FilterChoices ==
  {[includeStr |-> "", excludeStr |-> DefaultExclude],
   [includeStr |-> "", excludeStr |-> ""],
   [includeStr |-> "apps/**", excludeStr |-> DefaultExclude],
   [includeStr |-> "apps/**,**/yarn.lock", excludeStr |-> "apps/web/**"],
   [includeStr |-> "*/yarn.lock,apps/*/package-lock.json", excludeStr |-> "**/yarn.lock"]}

TreeEnv(rootDir, files, unreadable, filter, managersStr) ==
  [BaseEnv EXCEPT !.rootDir = rootDir,
                  !.files = files,
                  !.unreadable = unreadable,
                  !.disk = DiskOf(rootDir, files, <<>>),
                  !.includeStr = filter.includeStr,
                  !.excludeStr = filter.excludeStr,
                  !.managersStr = managersStr]

\* The tree below rootDir, and the filters and managers that select from it
TreeEnvs ==
  {TreeEnv("/app", files, {}, [includeStr |-> "", excludeStr |-> DefaultExclude],
           "yarn,npm,pnpm,bun")
   : files \in SubsetsUpTo(TreeFiles, MaxFiles)}
  \cup
  {TreeEnv(".", files, {}, [includeStr |-> "", excludeStr |-> DefaultExclude],
           "yarn,npm,pnpm,bun")
   : files \in SubsetsUpTo(TreeFiles, MaxFiles - 1)}
  \cup
  {TreeEnv("/app", {file}, unreadable, filter, managersStr)
   : file \in TreeFiles, unreadable \in {{}, {"private"}}, filter \in FilterChoices,
     managersStr \in {"yarn,npm,pnpm,bun", "yarn,yarn", "npm,bun"}}
  \cup
  {TreeEnv("/app", files \cup {"private/yarn.lock"}, {"private"},
           [includeStr |-> "", excludeStr |-> DefaultExclude], "yarn,npm,pnpm,bun")
   : files \in SubsetsUpTo(TreeFiles, MaxFiles - 1)}

\* The members the packages object of a package-lock.json is made of
EntryChoices ==
  {<<"", JObj(("name" :> JStr("left-pad")) @@ ("version" :> JStr("1.3.0")))>>,
   <<"node_modules/left-pad", Version("1.3.0")>>,
   <<"node_modules/left-pad", Version("1.2.0")>>,
   <<"node_modules/left-pad", Version("1.0.0")>>,
   <<"node_modules/left-pad", Version("1.3.0-rc.1")>>,
   <<"node_modules/LEFT-PAD", Version("1.3.0")>>,
   <<"node_modules/lodash/node_modules/left-pad", Version("1.3.0")>>,
   <<"node_modules/@babel/core", Version("7.15.0")>>,
   <<"node_modules/lodash", Version("4.17.21")>>,
   <<"node_modules/lodash", JObj("version" :> JNum)>>}

\* The dependencies member of a lockfile of the legacy layout: lodash, and
\* left-pad below it
LegacyTree ==
  JObj("lodash" :> JObj(("version" :> JStr("4.17.21")) @@
                        ("dependencies" :> JObj("left-pad" :> Version("1.3.0")))))

\* The lists the lockfile contents are scanned against
ScanLists ==
  {<<"left-pad@1.3.0", "left-pad@1.2.0", "babel/core@7.15.0">>,
   <<"Left-Pad@1.3.0", "lodash@4.17.20">>,
   <<"left-pad@1.3.0", "left-pad@1.3.0-rc.1", "lodash@4.17.21+build.1">>}

\* The content of the package-lock.json, for some lists
ScanEnvs ==
  {[BaseEnv EXCEPT !.listFile = ListFile(list),
                   !.files = {"package-lock.json"},
                   !.disk = DiskOf("/app", {"package-lock.json"},
                              "/app/package-lock.json" :>
                                 JSONFile("packages" :> JObj(MapOf(entries))))]
   : list \in ScanLists,
     entries \in {es \in SubsetsUpTo(EntryChoices, MaxEntries) : DistinctKeys(es)}}
  \cup
  {[BaseEnv EXCEPT !.files = {"package-lock.json"},
                   !.disk = DiskOf("/app", {"package-lock.json"},
                                   "/app/package-lock.json" :> file)]
   : file \in {MalformedFile, UnreadableFile, JSONFile("lockfileVersion" :> JNum),
               JSONFile("packages" :> JArr),
               JSONFile("dependencies" :> LegacyTree),
               JSONFile(("packages" :> JObj("node_modules/@babel/core" :> Version("7.15.0")))
                        @@ ("dependencies" :> LegacyTree))}}

\* The lockfiles of each kind that record @babel/core at 7.15.0, the scope
\* written with and without its '@': <<base name, file>>
ScopedLockfiles ==
  {<<"package-lock.json",
     JSONFile("packages" :> JObj("node_modules/@babel/core" :> Version("7.15.0")))>>,
   <<"package-lock.json",
     JSONFile("packages" :> JObj("node_modules/babel/core" :> Version("7.15.0")))>>,
   <<"npm-shrinkwrap.json",
     JSONFile("packages" :> JObj("node_modules/@babel/core" :> Version("7.15.0")))>>,
   <<"yarn.lock",
     TextFile(<<"# yarn lockfile v1", "", "\"@babel/core@^7.15.0\":",
                "  version \"7.15.0\"", "">>)>>,
   <<"yarn.lock",
     TextFile(<<"# yarn lockfile v1", "", "babel/core@^7.15.0:",
                "  version \"7.15.0\"", "">>)>>,
   <<"pnpm-lock.yaml",
     TextFile(<<"lockfileVersion: 5.4", "", "packages:", "", "  /@babel/core@7.15.0:",
                "    dev: false">>)>>,
   <<"pnpm-lock.yaml",
     TextFile(<<"lockfileVersion: 5.4", "", "packages:", "", "  /babel/core@7.15.0:",
                "    dev: false">>)>>,
   <<"bun.lock", JSONFile("packages" :> JObj("@babel/core@7.15.0" :> Version("7.15.0")))>>,
   <<"bun.lock", JSONFile("packages" :> JObj("babel/core@7.15.0" :> Version("7.15.0")))>>}

\* A scoped package in the list and in a lockfile, in either spelling
ScopeEnvs ==
  {[BaseEnv EXCEPT !.listFile = ListFile(list),
                   !.files = {lockfile[1]},
                   !.disk = DiskOf("/app", {lockfile[1]},
                                   JoinRoot("/app", lockfile[1]) :> lockfile[2])]
   : list \in {<<"babel/core@7.15.0">>, <<"@babel/core@7.15.0">>,
               <<"@babel/core@7.15.1", "babel/core@7.15.2">>},
     lockfile \in ScopedLockfiles}

\* A JSON lockfile that cannot be read or parsed, next to a lockfile that can
BrokenEnvs ==
  {[BaseEnv EXCEPT !.files = {broken, other},
                   !.disk = DiskOf("/app", {broken, other},
                                   JoinRoot("/app", broken) :> file)]
   : broken \in {"package-lock.json", "npm-shrinkwrap.json", "bun.lock"},
     other \in {"bun.lock", "yarn.lock"},
     file \in {MalformedFile, UnreadableFile}}

\* The yarn.lock and pnpm-lock.yaml files that record one name at two
\* versions, a stanza without a version line, a version that is not three
\* numbers, or a package in the /<name>/<version>: shape: <<base name, file>>
TextLockfiles ==
  {<<"yarn.lock",
     TextFile(<<"# yarn lockfile v1", "", "left-pad@^1.2.0:", "  version \"1.2.0\"", "",
                "left-pad@^1.3.0:", "  version \"1.3.0\"", "">>)>>,
   <<"yarn.lock",
     TextFile(<<"# yarn lockfile v1", "", "left-pad@^1.3.0:", "  version \"1.3.0\"", "",
                "left-pad@^1.2.0:", "  version \"1.2.0\"", "">>)>>,
   <<"yarn.lock",
     TextFile(<<"# yarn lockfile v1", "", "\"@babel/core@^7.15.0\":", "  dependencies:", "",
                "left-pad@^1.3.0:", "  version \"1.3.0\"", "">>)>>,
   <<"pnpm-lock.yaml",
     TextFile(<<"lockfileVersion: 5.4", "", "packages:", "", "  /left-pad@1.2.0:",
                "    dev: false", "", "  /left-pad@1.3.0:", "    dev: false">>)>>,
   <<"pnpm-lock.yaml",
     TextFile(<<"lockfileVersion: 5.4", "", "packages:", "", "  /left-pad@latest:",
                "    dev: false", "", "  /@babel/core@7.0.0(peer@1.0.0):",
                "    dev: false">>)>>,
   <<"pnpm-lock.yaml",
     TextFile(<<"lockfileVersion: 5.4", "", "packages:", "", "  /left-pad/1.3.0:",
                "    dev: false", "", "  /@babel/core/7.15.0:", "    dev: false">>)>>,
   <<"pnpm-lock.yaml",
     TextFile(<<"lockfileVersion: 5.4", "", "packages:", "", "  /left-pad@1.3.0:",
                "    dev: false", "", "  /@babel/core/7.15.1:", "    dev: false">>)>>}

\* The content of a yarn.lock or a pnpm-lock.yaml, for some lists
TextEnvs ==
  {[BaseEnv EXCEPT !.listFile = ListFile(list),
                   !.files = {lockfile[1]},
                   !.disk = DiskOf("/app", {lockfile[1]},
                                   JoinRoot("/app", lockfile[1]) :> lockfile[2])]
   : list \in {<<"left-pad@1.3.0", "babel/core@7.15.0">>,
               <<"left-pad@1.2.0", "left-pad@1.3.0">>},
     lockfile \in TextLockfiles}

\* The bun.lock and bun.lockb files: the packages members are arrays or
\* objects, under keys <name>@<version>: <<base name, file>>
BunLockfiles ==
  {<<"bun.lock",
     JSONFile("packages" :> JObj(("left-pad@1.3.0" :> JArr) @@ ("@babel/core@7.15.1" :> JArr)))>>,
   <<"bun.lock",
     JSONFile("packages" :> JObj(("left-pad@1.3.0" :> Version("1.3.0")) @@
                                 ("left-pad" :> Version("1.2.0"))))>>,
   <<"bun.lockb",
     JSONFile("packages" :> JObj("left-pad@1.3.0" :> Version("1.3.0")))>>,
   <<"bun.lockb", MalformedFile>>}

\* The content of a bun.lock or a bun.lockb
BunEnvs ==
  {[BaseEnv EXCEPT !.files = {lockfile[1]},
                   !.disk = DiskOf("/app", {lockfile[1]},
                                   JoinRoot("/app", lockfile[1]) :> lockfile[2])]
   : lockfile \in BunLockfiles}

Envs ==
  ListEnvs \cup FlagEnvs \cup TreeEnvs \cup ScanEnvs \cup ScopeEnvs \cup BrokenEnvs
  \cup TextEnvs \cup BunEnvs

(***************************************************************************)
(* The specification                                                       *)
(***************************************************************************)

Init ==
  /\ env \in Envs
  /\ pc = "validate"
  /\ managers = <<>>
  /\ include = <<>>
  /\ exclude = <<>>
  /\ affected = NoPackages
  /\ lockfiles = <<>>
  /\ results = <<>>
  /\ anyAffected = FALSE
  /\ anyWarnings = FALSE
  /\ scanResult = <<>>
  /\ exitCode = -1
  /\ calls = NoCalls
  /\ previous = <<>>

Next == Validate \/ Load \/ Find \/ Scan \/ Report \/ Rerun

Spec == Init /\ [][Next]_vars

(***************************************************************************)
(* Properties                                                              *)
(***************************************************************************)

Range(s) == {s[i] : i \in 1..Len(s)}

\* The verdicts the run has emitted: the packages of all results
Verdicts == UNION {Range(r.Packages) : r \in Range(results)}

\* This run has called scanLockfiles
Scanned == calls.scanLockfiles > 0

\* This run has called loadExploitedPackages
Loaded == calls.loadExploitedPackages > 0

\* This run has called findLockfiles
Searched == calls.findLockfiles > 0

\* The (name, version) pairs a package-lock.json holds, each with its key
ExtractedPairs(lockfile) ==
  LET file == env.disk[lockfile]
  IN IF /\ Base(lockfile) \in {"package-lock.json", "npm-shrinkwrap.json"}
        /\ file.readable
        /\ file.valid
        /\ "packages" \in DOMAIN file.data
        /\ IsObject(file.data["packages"])
     THEN LET packagesData == file.data["packages"].o
              versioned == {k \in DOMAIN packagesData :
                              /\ k # ""
                              /\ IsObject(packagesData[k])
                              /\ HasString(packagesData[k].o, "version")
                              /\ extractPackageNameFromPath(k) # ""}
          IN {[key |-> k, name |-> extractPackageNameFromPath(k),
               version |-> packagesData[k].o["version"].s] : k \in versioned}
     ELSE {}

\* The pairs of the lockfile whose name is a key of the database
Hits(lockfile) == {p \in ExtractedPairs(lockfile) : p.name \in DOMAIN affected}

\* C1: a pair whose name is a key of the database gets a verdict that is
\* affected and not a warning when its version is one of the key's versions,
\* and a warning and not affected otherwise; no verdict is both.
VerdictFollowsVersion ==
  /\ \A v \in Verdicts :
       /\ ~(v.IsAffected /\ v.IsWarning)
       /\ v.Name \in DOMAIN affected =>
            /\ v.IsAffected = (v.Version \in affected[v.Name])
            /\ v.IsWarning = (v.Version \notin affected[v.Name])
  /\ Scanned =>
       \A r \in Range(lockfiles) : \A p \in Hits(r) :
         \E res \in Range(results) :
           /\ res.LockFile = r
           /\ \E v \in Range(res.Packages) :
                /\ v.Name = p.name
                /\ v.Version = p.version
                /\ v.IsAffected = (p.version \in affected[p.name])
                /\ v.IsWarning = (p.version \notin affected[p.name])

\* A finished scan that gave an affected verdict and a warning verdict
VerdictFollowsVersionWitness ==
  /\ pc = "exit"
  /\ Scanned
  /\ \E v, w \in Verdicts :
       /\ v.IsAffected /\ v.Version \in affected[v.Name]
       /\ w.IsWarning /\ w.Version \notin affected[w.Name]

\* C2: no verdict names a package that is not, character for character, a key
\* of the database, and a lockfile gets no more verdicts than it has pairs
\* whose name is a key.
NoVerdictOutsideDatabase ==
  /\ \A v \in Verdicts : v.Name \in DOMAIN affected
  /\ \A res \in Range(results) :
       Base(res.LockFile) = "package-lock.json" =>
         Len(res.Packages) <= Cardinality(Hits(res.LockFile))

\* A finished scan against a database with the key Left-Pad of a lockfile
\* that holds left-pad or LEFT-PAD, which got no verdict
NoVerdictOutsideDatabaseWitness ==
  /\ pc = "exit"
  /\ Scanned
  /\ "Left-Pad" \in DOMAIN affected
  /\ \E r \in Range(lockfiles) : \E p \in ExtractedPairs(r) :
       /\ p.name \in {"left-pad", "LEFT-PAD"}
       /\ \A v \in Verdicts : v.Name # p.name

\* C3: the affectedVersions of every verdict hold each version the database
\* has for the name, once, and nothing else.
AffectedVersionsAreAll ==
  \A v \in Verdicts :
    v.Name \in DOMAIN affected =>
      /\ Range(v.AffectedVersions) = affected[v.Name]
      /\ Len(v.AffectedVersions) = Cardinality(affected[v.Name])

\* A finished scan with an affected verdict for a name the database has two
\* versions of
AffectedVersionsAreAllWitness ==
  /\ pc = "exit"
  /\ \E v \in Verdicts :
       /\ v.IsAffected
       /\ Cardinality(affected[v.Name]) = 2
       /\ Len(v.AffectedVersions) = 2

\* C4: a run that scans one lockfile gives the results the run before it
\* gave in the same environment: the same verdicts, in the same order, each
\* with its affectedVersions in the same order.
SameVerdictsTwice ==
  (pc = "exit" /\ Scanned /\ Len(lockfiles) = 1 /\ previous # <<>>) =>
    (previous[1].scanned => results = previous[1].results)

\* Some glob of the list matches the path
SomeMatch(relPath, globs) ==
  \E i \in 1..Len(globs) : matchesGlobPattern(relPath, globs[i])

\* The files below rootDir that the walk reaches and the managers name
Candidates ==
  {f \in env.files :
     /\ \A dir \in env.unreadable : ~Below(f, dir)
     /\ Base(f) \in Range(ManagerPatterns(managers))}

\* C5: of the files the managers name, findLockfiles returns those whose
\* root-relative path no exclude glob matches and, when there are include
\* globs, some include glob matches; it returns no path that an exclude glob
\* matches, whatever the include globs.
PathFilter ==
  Searched =>
    \A f \in Candidates :
      JoinRoot(env.rootDir, f) \in Range(lockfiles)
        <=> /\ ~SomeMatch(f, exclude)
            /\ Len(include) = 0 \/ SomeMatch(f, include)

\* A search that rejected a file that an include glob and an exclude glob match
PathFilterWitness ==
  /\ Searched
  /\ \E f \in Candidates :
       /\ SomeMatch(f, include)
       /\ SomeMatch(f, exclude)
       /\ JoinRoot(env.rootDir, f) \notin Range(lockfiles)

\* The directories the default exclude globs name
DefaultExcluded == {"node_modules", ".pnpm-store", "dist", "build", "tmp", ".turbo"}

\* The directory segments of a root-relative path: all but the last
DirSegments(relPath) ==
  LET parts == Split(relPath, "/")
  IN {parts[i] : i \in 1..(Len(parts) - 1)}

\* C6: with the default exclude list, findLockfiles returns no lockfile that
\* lies in a directory named node_modules, .pnpm-store, dist, build, tmp or
\* .turbo.
DefaultExcludesHold ==
  (Searched /\ env.excludeStr = DefaultExclude) =>
    \A f \in env.files :
      DirSegments(f) \cap DefaultExcluded # {} =>
        JoinRoot(env.rootDir, f) \notin Range(lockfiles)

\* Some verdict of the run is affected
AffectedVerdict == \E v \in Verdicts : v.IsAffected

\* os.WriteFile(jsonPath) fails
WriteFails == env.jsonPath # "" /\ ~env.jsonWritable

\* The database the run loaded has no entry
DatabaseEmpty == Loaded /\ DOMAIN affected = {}

\* The inputs main rejects: the list file or the root directory is missing,
\* no manager or an unknown one is named, the database is empty
InvalidInput ==
  LET named == parseCommaSeparated(env.managersStr)
  IN \/ env.listPath # "" /\ ~env.listFile.exists
     \/ ~env.rootExists
     \/ DatabaseEmpty
     \/ Len(named) = 0
     \/ ~AllValid(named)

FatalInput ==
  LET named == parseCommaSeparated(env.managersStr)
  IN \/ ~env.rootExists
     \/ Len(named) = 0
     \/ ~AllValid(named)

\* C8: when the root directory is missing, no manager or an unknown manager
\* is named, or the loaded database is empty, the run calls neither
\* findLockfiles nor scanLockfiles, goes no further, and exits with 1.
FatalBeforeScanning ==
  LET fatal == FatalInput
  IN /\ fatal => pc \in {"validate", "exit"}
     /\ DatabaseEmpty => pc = "exit"
     /\ (fatal \/ DatabaseEmpty) =>
          /\ calls.findLockfiles = 0
          /\ calls.scanLockfiles = 0
          /\ pc = "exit" => exitCode = 1

\* A run that ended with 1 for a missing root directory alone
FatalBeforeScanningWitness ==
  /\ pc = "exit"
  /\ exitCode = 1
  /\ ~env.rootExists
  /\ env.listPath # "" /\ env.listFile.exists
  /\ AllValid(managers) /\ Len(managers) > 0
  /\ calls = NoCalls

\* The file --list-path names exists and cannot be opened or read to its end
ListFileFails ==
  /\ env.listPath # ""
  /\ env.listFile.exists
  /\ ~env.listFile.openable \/ env.listFile.readErr

\* Loading the embedded list fails: an error, or no entry
EmbeddedFails ==
  LET fallback == loadEmbeddedExploitedPackages(env.embedded)
  IN fallback.err \/ DOMAIN fallback.affected = {}

\* C9 as claimed: a run with valid root and managers whose list file is missing
\* or cannot be read has, when it ends, loaded the embedded list once, and has
\* gone on to look for lockfiles unless loading the embedded list failed.
FallbackAsClaimed ==
  (/\ pc = "exit"
   /\ ~FatalInput
   /\ env.listPath # ""
   /\ ~env.listFile.exists \/ ListFileFails) =>
    /\ calls.loadEmbeddedExploitedPackages = 1
    /\ ~Searched => EmbeddedFails /\ exitCode = 1

\* C9 as amended: a run whose list file is missing ends with 1 and loads
\* nothing, the embedded list included.  A run that has loaded a list file
\* that exists and cannot be opened or read has loaded the embedded list once
\* and holds its entries; it ends there with 1 when loading the embedded list
\* failed and goes on to look for lockfiles otherwise.  No run loads the
\* embedded list twice.
FallbackOnLoadFailure ==
  /\ calls.loadEmbeddedExploitedPackages <= 1
  /\ (pc = "exit" /\ env.listPath # "" /\ ~env.listFile.exists) =>
       /\ exitCode = 1
       /\ calls.loadExploitedPackages = 0
       /\ calls.loadEmbeddedExploitedPackages = 0
  /\ (Loaded /\ ListFileFails) =>
       /\ calls.loadEmbeddedExploitedPackages = 1
       /\ affected = loadEmbeddedExploitedPackages(env.embedded).affected
       /\ IF EmbeddedFails
          THEN pc = "exit" /\ exitCode = 1 /\ ~Searched
          ELSE pc = "find" \/ Searched

\* A run that could not open its list file, loaded the embedded list and is
\* about to look for lockfiles
FallbackOnLoadFailureWitness ==
  /\ pc = "find"
  /\ ListFileFails
  /\ calls.loadEmbeddedExploitedPackages = 1
  /\ DOMAIN affected # {}

\* The line is one the loaders take an entry from
IsEntryLine(text) ==
  LET line == TrimSpace(text)
  IN line # "" /\ ~HasPrefix(line, "#") /\ FindStringSubmatch(line) # <<>>

\* The <<name, version>> entries of the lines, the scope of a name normalized
EntriesOf(lines) ==
  UNION {LET line == TrimSpace(lines[i])
             matches == FindStringSubmatch(line)
         IN IF line # "" /\ ~HasPrefix(line, "#") /\ matches # <<>>
            THEN {<<NormalizeScope(matches[2]), matches[3]>>}
            ELSE {}
         : i \in 1..Len(lines)}

\* The lines the loader that gave the database of the run has processed
LoadedLines ==
  IF calls.loadEmbeddedExploitedPackages > 0 THEN env.embedded.lines
  ELSE env.listFile.lines

\* C10: in a loaded database every key with a '/' begins with '@' and every
\* key has a version; the database holds the entries of the lines of the
\* name@version shape and nothing for a blank line, a line that starts with
\* '#' or a line of another shape, and such lines make no loader fail.
DatabaseWellFormed ==
  Loaded =>
    /\ \A name \in DOMAIN affected :
         /\ Contains(name, "/") => HasPrefix(name, "@")
         /\ affected[name] # {}
    /\ LET entries == EntriesOf(LoadedLines)
       IN /\ DOMAIN affected = {e[1] : e \in entries}
          /\ \A name \in DOMAIN affected :
               affected[name] = {e[2] : e \in {x \in entries : x[1] = name}}
    /\ (env.listPath # "" /\ env.listFile.openable /\ ~env.listFile.readErr) =>
         calls.loadEmbeddedExploitedPackages = 0

\* A database loaded from lines of which one gave a scoped key and another,
\* a comment, a blank line or a line of another shape, gave nothing
DatabaseWellFormedWitness ==
  /\ Loaded
  /\ calls.loadEmbeddedExploitedPackages = 0
  /\ \E name \in DOMAIN affected : Contains(name, "/")
  /\ \E i \in 1..Len(env.listFile.lines) : ~IsEntryLine(env.listFile.lines[i])

\* The text before and the text from the first '-' or '+' of a version
Qualified(version) ==
  LET at == {i \in 1..Len(version) : Char(version, i) \in {"-", "+"}}
      first == CHOOSE i \in at : \A j \in at : i <= j
  IN IF at = {} THEN <<version, "">>
     ELSE <<SubSeq(version, 1, first - 1), SubSeq(version, first, Len(version))>>

\* The line is name@X.Y.Z followed by a pre-release or build qualifier
IsQualifiedLine(text) ==
  LET line == TrimSpace(text)
      at == LastIndex(line, "@")
      version == SubSeq(line, at + 2, Len(line))
  IN /\ at >= 0
     /\ MatchesName(SubSeq(line, 1, at))
     /\ MatchesVersion(Qualified(version)[1])
     /\ Len(Qualified(version)[2]) > 1

\* The <<name, version>> of the lines of the list file that carry a qualifier
QualifiedEntries ==
  {<<NormalizeScope(SubSeq(TrimSpace(env.listFile.lines[i]), 1,
                           LastIndex(TrimSpace(env.listFile.lines[i]), "@"))),
     SubSeq(TrimSpace(env.listFile.lines[i]),
            LastIndex(TrimSpace(env.listFile.lines[i]), "@") + 2,
            Len(TrimSpace(env.listFile.lines[i])))>>
   : i \in {j \in 1..Len(env.listFile.lines) : IsQualifiedLine(env.listFile.lines[j])}}

\* C11: the database loaded from the list file holds, for every line
\* name@X.Y.Z with a pre-release or build qualifier, the whole version text
\* under the normalized name, and a lockfile that resolves the name at that
\* version gets an affected verdict.
QualifiedVersionsKept ==
  (Loaded /\ calls.loadEmbeddedExploitedPackages = 0) =>
    /\ \A e \in QualifiedEntries :
         e[1] \in DOMAIN affected /\ e[2] \in affected[e[1]]
    /\ Scanned =>
         \A r \in Range(lockfiles) : \A p \in ExtractedPairs(r) :
           <<p.name, p.version>> \in QualifiedEntries =>
             \E v \in Verdicts :
               v.Name = p.name /\ v.Version = p.version /\ v.IsAffected

\* The list lines that name the scoped package of ScopedLockfiles
ScopedLines ==
  {"babel/core@7.15.0", "@babel/core@7.15.0", "@babel/core@7.15.1", "babel/core@7.15.2"}

\* C12: a list line for babel/core or @babel/core gives the key @babel/core;
\* a lockfile of any kind that records the package in either spelling then
\* gets one result with one verdict, for @babel/core; and every key and every
\* name of a verdict is left as it is by the normalization.
ScopedNamesMeet ==
  /\ \A name \in DOMAIN affected \cup {v.Name : v \in Verdicts} :
       NormalizeScope(name) = name
  /\ (Loaded /\ calls.loadEmbeddedExploitedPackages = 0
        /\ Range(env.listFile.lines) \cap ScopedLines # {}) =>
       "@babel/core" \in DOMAIN affected /\ "babel/core" \notin DOMAIN affected
  /\ (Scanned /\ "@babel/core" \in DOMAIN affected) =>
       \A r \in Range(lockfiles) :
         <<Base(r), env.disk[r]>> \in ScopedLockfiles =>
           LET found == {i \in 1..Len(results) : results[i].LockFile = r}
           IN /\ Cardinality(found) = 1
              /\ \A i \in found :
                   /\ Len(results[i].Packages) = 1
                   /\ results[i].Packages[1].Name = "@babel/core"
                   /\ results[i].Packages[1].Version = "7.15.0"
                   /\ results[i].Packages[1].IsAffected
                        = ("7.15.0" \in affected["@babel/core"])

\* A finished scan of a lockfile that writes the scope without '@' against a
\* list that writes it without '@', with the affected verdict for @babel/core
ScopedNamesMeetWitness ==
  /\ pc = "exit"
  /\ "babel/core@7.15.0" \in Range(env.listFile.lines)
  /\ \E r \in Range(lockfiles) :
       /\ <<Base(r), env.disk[r]>> \in ScopedLockfiles
       /\ "  /babel/core@7.15.0:" \in Range(env.disk[r].lines)
  /\ \E v \in Verdicts : v.Name = "@babel/core" /\ v.IsAffected

\* Some verdict of the run is a warning
WarningVerdict == \E v \in Verdicts : v.IsWarning

\* C13: after scanLockfiles, anyAffected is true exactly when some verdict of
\* the results is affected, and anyWarnings exactly when some verdict is a
\* warning.
FlagsFollowVerdicts ==
  /\ anyAffected = AffectedVerdict
  /\ anyWarnings = WarningVerdict

\* A scan of two lockfiles, the first with an affected verdict and the second
\* with a warning only
FlagsFollowVerdictsWitness ==
  /\ Scanned
  /\ Len(results) = 2
  /\ anyAffected /\ anyWarnings
  /\ \E v \in Range(results[1].Packages) : v.IsAffected
  /\ \A v \in Range(results[2].Packages) : v.IsWarning

\* The place of a path in the located lockfiles
PlaceOf(lockfile) == CHOOSE i \in 1..Len(lockfiles) : lockfiles[i] = lockfile

\* C14: no Result has an empty package list; the results name, once each and
\* in the order of the located lockfiles, the lockfiles whose scan gives a
\* verdict.
ResultsKeepHits ==
  /\ \A res \in Range(results) :
       Len(res.Packages) > 0 /\ res.LockFile \in Range(lockfiles)
  /\ \A i, j \in 1..Len(results) :
       i < j => PlaceOf(results[i].LockFile) < PlaceOf(results[j].LockFile)
  /\ Scanned =>
       \A r \in Range(lockfiles) :
         (\E res \in Range(results) : res.LockFile = r)
           <=> (\E scanned \in scanLockfile(r, affected, env.disk) :
                  Len(scanned.packages) > 0)

\* A scan of two lockfiles of which the first gives no verdict and is not in
\* the results, and the second is
ResultsKeepHitsWitness ==
  /\ Scanned
  /\ Len(lockfiles) = 2
  /\ Len(results) = 1
  /\ results[1].LockFile = lockfiles[2]

\* The located JSON lockfiles that cannot be read or are not valid JSON
Broken ==
  {r \in Range(lockfiles) :
     /\ Base(r) \in {"package-lock.json", "npm-shrinkwrap.json", "bun.lock"}
     /\ ~env.disk[r].readable \/ ~env.disk[r].valid}

\* C15: a JSON lockfile that cannot be read or parsed gets no Result and sets
\* no flag; every other lockfile gets the verdicts its own scan gives; and the
\* run ends as a run without the broken file does, with 2 or 0 by the
\* verdicts (1 when the file of --json-path cannot be written).
BrokenLockfileIsSkipped ==
  Scanned =>
    /\ \A res \in Range(results) : res.LockFile \notin Broken
    /\ anyAffected = AffectedVerdict
    /\ anyWarnings = WarningVerdict
    /\ \A r \in Range(lockfiles) \ Broken :
         \/ \E res \in Range(results) :
              /\ res.LockFile = r
              /\ \E scanned \in scanLockfile(r, affected, env.disk) :
                   res.Packages = scanned.packages
         \/ /\ \A res \in Range(results) : res.LockFile # r
            /\ \E scanned \in scanLockfile(r, affected, env.disk) :
                 scanned.packages = <<>>
    /\ pc \in {"report", "exit"}
    /\ pc = "exit" =>
         exitCode = IF WriteFails THEN 1 ELSE IF AffectedVerdict THEN 2 ELSE 0

\* A finished scan of a broken JSON lockfile and a lockfile with a verdict,
\* which is reported
BrokenLockfileIsSkippedWitness ==
  /\ pc = "exit"
  /\ Broken # {}
  /\ Len(lockfiles) = 2
  /\ Len(results) = 1
  /\ exitCode = 2

\* The packages object of a package-lock.json or npm-shrinkwrap.json, <<>>
\* when the file has none
PackagesOf(lockfile) ==
  LET file == env.disk[lockfile]
  IN IF /\ Base(lockfile) \in {"package-lock.json", "npm-shrinkwrap.json"}
        /\ file.readable
        /\ file.valid
        /\ "packages" \in DOMAIN file.data
        /\ IsObject(file.data["packages"])
     THEN file.data["packages"].o
     ELSE <<>>

\* The root entry of the lockfile names a package and a version of the database
RootIsListed(lockfile) ==
  LET packagesData == PackagesOf(lockfile)
  IN /\ "" \in DOMAIN packagesData
     /\ IsObject(packagesData[""])
     /\ HasString(packagesData[""].o, "name")
     /\ HasString(packagesData[""].o, "version")
     /\ packagesData[""].o["name"].s \in DOMAIN affected
     /\ packagesData[""].o["version"].s \in affected[packagesData[""].o["name"].s]

\* The verdicts the results hold for the lockfile
VerdictsOf(lockfile) ==
  UNION {Range(res.Packages) : res \in {x \in Range(results) : x.LockFile = lockfile}}

\* C16: the verdicts of a package-lock.json are those of its entries with a
\* key other than "": the root entry gets none, whether or not the database
\* lists its name and version.
RootEntryIsSkipped ==
  Scanned =>
    \A r \in Range(lockfiles) :
      "" \in DOMAIN PackagesOf(r) =>
        /\ Hits(r) # {} => \E res \in Range(results) : res.LockFile = r
        /\ \A res \in Range(results) :
             res.LockFile = r => Len(res.Packages) = Cardinality(Hits(r))
        /\ \A v \in VerdictsOf(r) :
             \E p \in Hits(r) : p.name = v.Name /\ p.version = v.Version

\* A finished scan of a lockfile whose root entry is listed in the database and
\* which has no other entry: no verdict, status 0
RootEntryIsSkippedWitness ==
  /\ pc = "exit"
  /\ exitCode = 0
  /\ results = <<>>
  /\ \E r \in Range(lockfiles) :
       RootIsListed(r) /\ DOMAIN PackagesOf(r) = {""}

\* The text of a key after its last node_modules/ segment, scope normalized
AfterLastNodeModules(key) ==
  NormalizeScope(SubSeq(key, LastIndex(key, "node_modules/") + 1 + Len("node_modules/"),
                        Len(key)))

\* C17: for every key of the packages object with a node_modules/ segment, the
\* nested ones included, the name extracted is the text after the last
\* node_modules/ segment, and the entry is classified under that name.
NameAfterLastNodeModules ==
  Scanned =>
    \A r \in Range(lockfiles) : \A key \in DOMAIN PackagesOf(r) :
      Contains(key, "node_modules/") =>
        /\ extractPackageNameFromPath(key) = AfterLastNodeModules(key)
        /\ (/\ IsObject(PackagesOf(r)[key])
            /\ HasString(PackagesOf(r)[key].o, "version")
            /\ AfterLastNodeModules(key) \in DOMAIN affected) =>
             \E v \in VerdictsOf(r) :
               /\ v.Name = AfterLastNodeModules(key)
               /\ v.Version = PackagesOf(r)[key].o["version"].s

\* The <<name, version>> of the nodes of a dependencies tree, at any depth
RECURSIVE TreeNodes(_)
TreeNodes(deps) ==
  UNION {(IF IsObject(deps[name]) /\ HasString(deps[name].o, "version")
          THEN {<<name, deps[name].o["version"].s>>} ELSE {})
         \cup (IF /\ IsObject(deps[name])
                  /\ "dependencies" \in DOMAIN deps[name].o
                  /\ IsObject(deps[name].o["dependencies"])
               THEN TreeNodes(deps[name].o["dependencies"].o) ELSE {})
         : name \in DOMAIN deps}

\* The nodes of the dependencies tree of a package-lock.json or
\* npm-shrinkwrap.json
LegacyNodes(lockfile) ==
  LET file == env.disk[lockfile]
  IN IF /\ Base(lockfile) \in {"package-lock.json", "npm-shrinkwrap.json"}
        /\ file.readable
        /\ file.valid
        /\ "dependencies" \in DOMAIN file.data
        /\ IsObject(file.data["dependencies"])
     THEN TreeNodes(file.data["dependencies"].o)
     ELSE {}

\* C18: every node of the dependencies tree of a lockfile, at any depth, whose
\* name is a key of the database gets a verdict, whether or not the file has a
\* packages object as well.
LegacyTreeIsScanned ==
  Scanned =>
    \A r \in Range(lockfiles) : \A node \in LegacyNodes(r) :
      node[1] \in DOMAIN affected =>
        \E v \in VerdictsOf(r) : v.Name = node[1] /\ v.Version = node[2]

\* The <<name, version>> of the stanzas of a yarn.lock: each header line with
\* the version below it
YarnStanzas(lockfile) ==
  LET file == env.disk[lockfile]
  IN IF Base(lockfile) = "yarn.lock" /\ file.readable
     THEN {<<extractPackageNameFromYarnHeader(Trim(TrimSpace(file.lines[i]), "\":")),
             YarnVersion(file.lines, i + 1)>>
           : i \in {j \in 1..Len(file.lines) :
                      LET line == TrimSpace(file.lines[j])
                      IN /\ Contains(line, "@")
                         /\ Contains(line, ":")
                         /\ extractPackageNameFromYarnHeader(Trim(line, "\":")) # ""
                         /\ YarnVersion(file.lines, j + 1) # ""}}
     ELSE {}

\* The <<name, version>> of a line /<name>@<version>: or /<name>/<version>:
\* the '@' of a scope is not the one before a version
PnpmPair(text) ==
  LET line == TrimSpace(text)
      entry == TrimSuffix(TrimPrefix(line, "/"), ":")
      atIndex == LastIndex(entry, "@")
      slashIndex == LastIndex(entry, "/")
  IN IF atIndex > 0
     THEN <<SubSeq(entry, 1, atIndex), SubSeq(entry, atIndex + 2, Len(entry))>>
     ELSE <<SubSeq(entry, 1, slashIndex), SubSeq(entry, slashIndex + 2, Len(entry))>>

\* The lines of a pnpm-lock.yaml of the two shapes
PnpmEntryLines(lockfile) ==
  LET file == env.disk[lockfile]
  IN IF Base(lockfile) = "pnpm-lock.yaml" /\ file.readable
     THEN {i \in 1..Len(file.lines) :
             LET line == TrimSpace(file.lines[i])
                 entry == TrimSuffix(TrimPrefix(line, "/"), ":")
             IN /\ HasPrefix(line, "/")
                /\ HasSuffix(line, ":")
                /\ \/ LastIndex(entry, "@") > 0
                   \/ LastIndex(entry, "/") > 0}
     ELSE {}

\* The <<name, version>> of the lines of a pnpm-lock.yaml written with an '@'
\* before the version
PnpmAtPairs(lockfile) ==
  {PnpmPair(env.disk[lockfile].lines[i])
   : i \in {j \in PnpmEntryLines(lockfile) :
              LastIndex(TrimSuffix(TrimSpace(env.disk[lockfile].lines[j]), ":"), "@") > 1}}

\* C19: each version a yarn.lock or a pnpm-lock.yaml resolves a name of the
\* database at has a verdict of its own, classified on that version.
EachVersionHasVerdict ==
  Scanned =>
    \A r \in Range(lockfiles) : \A pair \in YarnStanzas(r) \cup PnpmAtPairs(r) :
      pair[1] \in DOMAIN affected =>
        \E v \in VerdictsOf(r) :
          /\ v.Name = pair[1]
          /\ v.Version = pair[2]
          /\ v.IsAffected = (pair[2] \in affected[pair[1]])

\* C20: a line of a pnpm-lock.yaml of either shape, /<name>@<version>: or
\* /<name>/<version>:, whose name is a key of the database has a verdict.
BothPnpmShapesRead ==
  Scanned =>
    \A r \in Range(lockfiles) : \A i \in PnpmEntryLines(r) :
      LET pair == PnpmPair(env.disk[r].lines[i])
      IN pair[1] \in DOMAIN affected =>
           \E v \in VerdictsOf(r) : v.Name = pair[1] /\ v.Version = pair[2]

\* The keys of the packages object of a bun.lock whose members are arrays
\* and that hold an '@' after a name
BunArrayKeys(lockfile) ==
  LET file == env.disk[lockfile]
  IN IF /\ Base(lockfile) = "bun.lock"
        /\ file.readable
        /\ file.valid
        /\ "packages" \in DOMAIN file.data
        /\ IsObject(file.data["packages"])
     THEN {key \in DOMAIN file.data["packages"].o :
             file.data["packages"].o[key].t = "arr" /\ LastIndex(key, "@") > 0}
     ELSE {}

\* C21: a key <name>@<version> of the packages object of a bun.lock whose
\* member is an array has a verdict when its name is a key of the database,
\* affected when the version of the key is one of the name's versions.
BunArrayKeysRead ==
  Scanned =>
    \A r \in Range(lockfiles) : \A key \in BunArrayKeys(r) :
      LET atIndex == LastIndex(key, "@")
          name == NormalizeScope(SubSeq(key, 1, atIndex))
          version == SubSeq(key, atIndex + 2, Len(key))
      IN name \in DOMAIN affected =>
           \E v \in VerdictsOf(r) :
             /\ v.Name = name
             /\ v.Version = version
             /\ v.IsAffected = (version \in affected[name])

\* The base names of the lockfiles of a manager
ManagerFiles(manager) ==
  CASE manager = "yarn" -> {"yarn.lock"}
    [] manager = "npm" -> {"package-lock.json", "npm-shrinkwrap.json"}
    [] manager = "pnpm" -> {"pnpm-lock.yaml"}
    [] manager = "bun" -> {"bun.lock", "bun.lockb"}
    [] OTHER -> {}

\* The files below rootDir that the walk reaches
Reached == {f \in env.files : \A dir \in env.unreadable : ~Below(f, dir)}

\* C22: findLockfiles returns, each once, the files the walk reaches whose
\* base name is a lockfile name of a requested manager and that
\* shouldIncludePath accepts, and nothing else: no directory and no file of a
\* manager that is not requested, also when a manager is requested twice.
LockfilesAreTheRequested ==
  Searched =>
    /\ \A i, j \in 1..Len(lockfiles) : lockfiles[i] = lockfiles[j] => i = j
    /\ Range(lockfiles) =
         {JoinRoot(env.rootDir, f)
          : f \in {g \in Reached :
                     /\ Base(g) \in UNION {ManagerFiles(m) : m \in Range(managers)}
                     /\ shouldIncludePath(JoinRoot(env.rootDir, g), env.rootDir,
                                          include, exclude)}}

\* A search for one manager requested twice that has returned a lockfile
LockfilesAreTheRequestedWitness ==
  /\ Searched
  /\ Len(managers) = 2
  /\ managers[1] = managers[2]
  /\ Len(lockfiles) = 1

\* The walk has met a directory that cannot be read
WalkMetError ==
  \E dir \in env.unreadable : \E f \in env.files : Below(f, dir)

\* C23: a directory that cannot be read does not end the search: the run is
\* not ended with status 1 by it, and every lockfile the walk reaches
\* elsewhere that shouldIncludePath accepts is returned.
WalkErrorIsSkipped ==
  (Searched /\ WalkMetError) =>
    /\ exitCode = 1 => WriteFails
    /\ \A f \in Reached :
         (/\ Base(f) \in Range(ManagerPatterns(managers))
          /\ shouldIncludePath(JoinRoot(env.rootDir, f), env.rootDir, include, exclude))
           => JoinRoot(env.rootDir, f) \in Range(lockfiles)

\* A search that met a directory that cannot be read and returned a lockfile
\* that the walk visits after it
WalkErrorIsSkippedWitness ==
  /\ Searched
  /\ WalkMetError
  /\ "private" \in env.unreadable
  /\ JoinRoot(env.rootDir, "yarn.lock") \in Range(lockfiles)
  /\ pc = "scan"

\* The places <<i, j>> of the verdicts of the results
Places ==
  UNION {{<<i, j>> : j \in 1..Len(results[i].Packages)} : i \in 1..Len(results)}

\* C24: the summary of a run that reports counts the verdicts of the results
\* (TotalPackages), those that are warnings (TotalWarnings), those that are
\* affected (TotalCompromised) and the lockfiles found, with or without a
\* verdict (TotalLockfiles).
SummaryCounts ==
  scanResult # <<>> =>
    LET summary == scanResult[1].Summary
    IN /\ summary.TotalPackages = Cardinality(Places)
       /\ summary.TotalWarnings =
            Cardinality({p \in Places : results[p[1]].Packages[p[2]].IsWarning})
       /\ summary.TotalCompromised =
            Cardinality({p \in Places : results[p[1]].Packages[p[2]].IsAffected})
       /\ summary.TotalLockfiles = Len(lockfiles)

\* A report on more lockfiles than results, with an affected verdict
SummaryCountsWitness ==
  /\ scanResult # <<>>
  /\ scanResult[1].Summary.TotalLockfiles > Len(results)
  /\ scanResult[1].Summary.TotalCompromised >= 1

\* The version of the body of a stanza, the lines from the 1-based line j up
\* to the next blank line or the end of the file: "" when it has no version line
RECURSIVE BodyVersion(_, _)
BodyVersion(lines, j) ==
  IF j > Len(lines) THEN ""
  ELSE IF TrimSpace(lines[j]) = "" THEN ""
  ELSE IF HasPrefix(TrimSpace(lines[j]), "version")
  THEN Trim(TrimPrefix(TrimSpace(lines[j]), "version"), " \"")
  ELSE BodyVersion(lines, j + 1)

\* C25: a verdict of a yarn.lock has the name of a stanza and the version of
\* the body of that stanza: a stanza without a version line gets no verdict
\* with the version of a later one.
VersionFromOwnStanza ==
  Scanned =>
    \A r \in Range(lockfiles) :
      (Base(r) = "yarn.lock" /\ env.disk[r].readable) =>
        \A v \in VerdictsOf(r) :
          \E i \in 1..Len(env.disk[r].lines) :
            LET line == TrimSpace(env.disk[r].lines[i])
            IN /\ Contains(line, "@")
               /\ Contains(line, ":")
               /\ extractPackageNameFromYarnHeader(Trim(line, "\":")) = v.Name
               /\ BodyVersion(env.disk[r].lines, i + 1) = v.Version

\* [0-9]+\.[0-9]+\.[0-9]+
IsThreePart(version) ==
  LET parts == Split(version, ".")
  IN Len(parts) = 3 /\ \A i \in 1..3 : IsNumber(parts[i])

\* C26: every verdict of a pnpm-lock.yaml has a version of three numbers
\* joined by dots: a line such as /left-pad@latest: gets none.
PnpmVersionsAreThreePart ==
  Scanned =>
    \A r \in Range(lockfiles) :
      Base(r) = "pnpm-lock.yaml" => \A v \in VerdictsOf(r) : IsThreePart(v.Version)

\* C27: the glob **/node_modules/** matches the path of a file below rootDir
\* only if a directory on the path is named node_modules.
NodeModulesIsASegment ==
  Searched =>
    \A f \in Reached :
      matchesGlobPattern(f, "**/node_modules/**") => "node_modules" \in DirSegments(f)

\* S occurs in the path with a '/' or the start of the path before it and a
\* '/' or the end of the path after it
Delimited(path, S) ==
  \E k \in 1..(Len(path) - Len(S) + 1) :
    /\ SubSeq(path, k, k + Len(S) - 1) = S
    /\ k = 1 \/ Char(path, k - 1) = "/"
    /\ k + Len(S) - 1 = Len(path) \/ Char(path, k + Len(S)) = "/"

\* The globs **/S of the run that do not end in /**
SuffixGlobs ==
  {pattern \in Range(include) \cup Range(exclude) :
     HasPrefix(pattern, "**/") /\ ~HasSuffix(pattern, "/**")}

\* C28: a glob **/S that does not end in /** matches the path of a file below
\* rootDir exactly when S occurs in it between path boundaries.
SuffixGlobIsDelimited ==
  Searched =>
    \A f \in Reached : \A pattern \in SuffixGlobs :
      matchesGlobPattern(f, pattern) <=> Delimited(f, TrimPrefix(pattern, "**/"))

\* The results the parser named after the base name of the lockfile may give
OwnParser(lockfile) ==
  CASE Base(lockfile) = "yarn.lock" -> parseYarnLock(env.disk[lockfile], affected)
    [] Base(lockfile) \in {"package-lock.json", "npm-shrinkwrap.json"} ->
         parseNPMLock(env.disk[lockfile], affected)
    [] Base(lockfile) = "pnpm-lock.yaml" -> parsePNMLock(env.disk[lockfile], affected)
    [] Base(lockfile) = "bun.lock" -> parseBunLock(env.disk[lockfile], affected)
    [] OTHER -> {NoResult}

\* The packages the results hold for the lockfile: <<>> when they hold none
PackagesIn(lockfile) ==
  IF \E i \in 1..Len(results) : results[i].LockFile = lockfile
  THEN results[CHOOSE i \in 1..Len(results) : results[i].LockFile = lockfile].Packages
  ELSE <<>>

\* Base names that are no lockfile name, some close to one
OtherNames == {"Yarn.lock", "yarn.lock.bak", "package.json", "bun.lockb.json", ""}

\* C29: the verdicts of each lockfile are those of the parser of its base
\* name; a bun.lockb gets no verdict, whatever it holds, and sets no flag; a
\* file of any other base name gets no verdict and no flag either.
ParserByBaseName ==
  Scanned =>
    /\ \A r \in Range(lockfiles) :
         /\ \E res \in OwnParser(r) : PackagesIn(r) = res.packages
         /\ Base(r) = "bun.lockb" => PackagesIn(r) = <<>>
    /\ (\A r \in Range(lockfiles) : Base(r) = "bun.lockb")
         => ~anyAffected /\ ~anyWarnings
    /\ \A name \in OtherNames :
         scanLockfile(JoinRoot(env.rootDir, name), affected, env.disk) = {NoResult}

\* A scan of a bun.lockb that holds what would be a verdict in a bun.lock
ParserByBaseNameWitness ==
  /\ Scanned
  /\ results = <<>>
  /\ \E r \in Range(lockfiles) :
       /\ Base(r) = "bun.lockb"
       /\ \E res \in parseBunLock(env.disk[r], affected) : Len(res.packages) > 0

\* The counters and the flags of the report agree
CountersAgree ==
  LET report == scanResult[1]
  IN /\ report.Summary.TotalPackages
          = report.Summary.TotalWarnings + report.Summary.TotalCompromised
     /\ report.AnyAffected <=> report.Summary.TotalCompromised >= 1
     /\ report.AnyWarnings <=> report.Summary.TotalWarnings >= 1

\* C30 as stated: in the report of a run that has ended the counters and the
\* flags agree and the exit status is 2 exactly when TotalCompromised is 1 or
\* more.
ReportAgreesAsClaimed ==
  (pc = "exit" /\ scanResult # <<>>) =>
    /\ CountersAgree
    /\ exitCode = 2 <=> scanResult[1].Summary.TotalCompromised >= 1

\* C30 as amended: the counters and the flags agree; the exit status is 1 when
\* writing the file of --json-path fails, and otherwise 2 when
\* TotalCompromised is 1 or more and 0 when it is 0.
ReportAgrees ==
  (pc = "exit" /\ scanResult # <<>>) =>
    /\ CountersAgree
    /\ WriteFails => exitCode = 1
    /\ ~WriteFails =>
         exitCode = (IF scanResult[1].Summary.TotalCompromised >= 1 THEN 2 ELSE 0)

\* A run ended with 2 on a report with a warning and an affected verdict
ReportAgreesWitness ==
  /\ pc = "exit"
  /\ scanResult # <<>>
  /\ scanResult[1].Summary.TotalWarnings >= 1
  /\ scanResult[1].Summary.TotalCompromised >= 1
  /\ exitCode = 2

====
